---- MODULE Spec2Model ----
(***************************************************************************)
(* ANMP: the three layer canvases (NetworkCanvas, one per layer l1/l2/l3)  *)
(* of the main window (ANMPApp), their node and connection registries and  *)
(* the handlers that change them.                                          *)
(*                                                                         *)
(* A canvas is the record [nodes, connections, next_node_id] of            *)
(* NetworkCanvas.__init__.  nodes maps an id to the node_data of the item  *)
(* stored under it, connections maps a key (a pair of ids) to the          *)
(* connection_data of the item stored under it.                            *)
(***************************************************************************)
EXTENDS Naturals, Sequences, FiniteSets, TLC

\* ------------------------------------------------------------- bounds
\* Largest node id a canvas hands out in the model (cap on next_node_id - 1).
MaxNodeId == 3
\* Most connections the model lets one canvas hold (insertions beyond are not
\* attempted; rejected calls are always attempted).
MaxConns == 2
\* Longest connection list of one layer in a loaded document.
MaxDocConns == 2
\* Longest list of discovered hosts delivered by one scan.
MaxHosts == 2
\* Largest node id a canvas hands out under the main window's handlers.
MaxAppNodeId == 2
\* Most items selected when delete_selected runs.
MaxSelected == 2
\* Latest time the model's clock reaches; every call of DataManager takes one
\* tick.
MaxClock == 3
\* Latest time at which the window's file handlers call DataManager.
MaxWindowClock == 2
\* Connections on the three canvases together in the layout runs.
MaxLayoutConns == 1
\* Scans started.
MaxScans == 1
\* Paths the recent-files runs load and save: one more than the list holds.
MaxRecentPaths == 11
\* Loads and saves in a recent-files run.
MaxRecentOps == 2
\* Largest node id a canvas hands out in the registry runs.
MaxRegistryNodeId == 2
\* Connections on the canvas in the registry runs.
MaxRegistryConns == 1

\* ------------------------------------------------------------- values
Layers == {"l1", "l2", "l3"}
\* Order of iteration over ANMPApp.canvases (dict insertion order).
Levels == <<"l1", "l2", "l3">>

NodeIds == 1..MaxNodeId
\* Ids as a caller may pass them; 0 stands for a missing / falsy id.
ArgIds == 0..MaxNodeId

\* The "type" label of a connection_data; "ethernet" is add_connection's default.
ConnTypes == {"ethernet", "fiber"}

\* Python values handed to add_node / add_connection as the optional argument.
None == [kind |-> "None"]
IntValue(n) == [kind |-> "int", val |-> n]
NodeDict(i) == [kind |-> "dict", id |-> i]
\* A node_data dict with a top-level "ip" (and no "id").
HostDict(name, ip, pos) ==
    [kind |-> "dict", id |-> 0, name |-> name, ip |-> ip, pos |-> pos]
\* Where a node's item stands, setPos(x, y); node_data's "x" and "y" are set
\* with it and not read again.  The coordinates are told apart by where they
\* came from: random.randint in add_node or add_discovered_nodes, the click
\* of add_node_at_position, the spring layout of auto_layout.
RandomPos == "random"
ClickPos == "click"
LayoutPos == "layout"
\* ip.split('.')[-1] for the addresses of the model.
LastOctet(ip) == CASE ip = "10.0.0.5" -> "5" [] ip = "10.0.0.6" -> "6"
\* The value of node_data.get("ip") of a node_data without that key.
NoIp == "None"
\* f"192.168.1.{new_id}"
DefaultIp(new_id) == "192.168.1." \o ToString(new_id)
\* The "mask" default of add_node's "l3" and of add_discovered_nodes.
DefaultMask == "255.255.255.0"
ConnDict(s, t, ty) == [kind |-> "dict", source |-> s, target |-> t, type |-> ty]

EmptyMap == [x \in {} |-> x]
Min(a, b) == IF a <= b THEN a ELSE b
Max(a, b) == IF a >= b THEN a ELSE b
Range(s) == {s[i] : i \in DOMAIN s}
Remove(f, k) == [x \in (DOMAIN f) \ {k} |-> f[x]]
Put(f, k, v) == [x \in (DOMAIN f) \cup {k} |-> IF x = k THEN v ELSE f[x]]

\* NetworkCanvas.__init__: the registries and the id counter.
NewCanvas == [nodes |-> EmptyMap, connections |-> EmptyMap, next_node_id |-> 1]

VARIABLES
    canvases,   \* ANMPApp.canvases: layer -> canvas
    active,     \* the layer of topology_tabs.currentWidget()
    crashed,    \* TRUE once a handler has raised an exception nobody catches
    pc,         \* the handler in progress: "idle", "delete", "load", or
                \* "wait" inside scanner_thread.wait()
    work,       \* what the handler in progress still has to do
    last,       \* history: the operation that ran last and how it ended
    issued,     \* history: layer -> ids returned by add_node since the canvas
                \*          was constructed or last cleared, in order
    assigned,   \* history: layer -> ids add_node ever assigned on that canvas
    has_project,     \* the has_project update_ui_from_state passed to
                     \* update_action_states last: whether "delete", "save
                     \* as", "auto layout" are enabled
    project_state,   \* AppStateManager.project_state: file_path and
                     \* has_unsaved_changes
    recent_files,    \* AppStateManager.recent_files, newest first
    fs,              \* the file system: path -> content of the file there
    clock,           \* datetime.now(), counted in calls
    current_project, \* DataManager.current_project
    io,              \* history: the file operation that ran last
    current_connection, \* ConnectionEditor.current_connection
    scanner_thread,   \* NetworkScanner.scanner_thread and where its run() is
    scanner_nodes,    \* NetworkScanner.discovered_nodes
    events,           \* the signals of the worker thread posted to the thread
                      \* of the window and not delivered yet, oldest first
    scanner_widget,   \* NetworkScannerWidget: which buttons are enabled
    scan_log          \* history: the scans started and what nodes_discovered
                      \*          emitted since the last one started

appVars == <<has_project, project_state, recent_files, current_connection>>
fileVars == <<fs, clock, current_project, io>>
scanVars == <<scanner_thread, scanner_nodes, events, scanner_widget,
              scan_log>>
vars == <<canvases, active, crashed, pc, work, last, issued, assigned,
          has_project, project_state, recent_files, fs, clock,
          current_project, io, current_connection, scanner_thread,
          scanner_nodes, events,
          scanner_widget, scan_log>>

\* ------------------------------------------------------------- NetworkCanvas
\* The node_data add_node stores: "id" set to the counter's value, the "ip" of
\* the node_data given (if any) kept, "l3" defaulted from new_id since no
\* caller's node_data has an "l3" of its own.
node_record(node_data, next_node_id, new_id) ==
    [id |-> next_node_id,
     name |-> IF "name" \in DOMAIN node_data THEN node_data.name
              ELSE "Device-" \o ToString(new_id),
     pos |-> IF "pos" \in DOMAIN node_data THEN node_data.pos ELSE RandomPos,
     ip |-> IF "ip" \in DOMAIN node_data THEN node_data.ip ELSE NoIp,
     l3 |-> IF "l3" \in DOMAIN node_data THEN node_data.l3
            ELSE [ip |-> DefaultIp(new_id), mask |-> DefaultMask]]

\* A variant of add_node that takes the id from the number of registered nodes
\* instead of the counter.
add_node_by_count(cv, node_data) ==
    IF node_data.kind = "int"
    THEN [canvas |-> cv, ret |-> 0, exc |-> "TypeError"]
    ELSE LET new_id == Cardinality(DOMAIN cv.nodes) + 1
             data   == node_record(node_data, new_id, new_id)
         IN  [canvas |-> [cv EXCEPT !.nodes = Put(cv.nodes, data.id, data),
                                    !.next_node_id = new_id + 1],
              ret |-> data.id, exc |-> "none"]

\* add_node(node_data): the id is the counter's value, the item is stored
\* under it and the counter moves on.  Called with an int (as add_node_action
\* does for the canvases that are not active) the item assignment
\* node_data["id"] = ... raises TypeError before anything is changed.
add_node(cv, node_data) ==
    IF node_data.kind = "int"
    THEN [canvas |-> cv, ret |-> 0, exc |-> "TypeError"]
    ELSE LET new_id == cv.next_node_id
             data   == node_record(node_data, cv.next_node_id, new_id)
         IN  [canvas |-> [cv EXCEPT !.nodes = Put(cv.nodes, data.id, data),
                                    !.next_node_id = new_id + 1],
              ret |-> data.id, exc |-> "none"]

\* add_node_at_position(x, y): a dict without "id" and with the "ip"
\* f"192.168.1.{self.next_node_id}", handed to add_node.
add_node_at_position(cv) ==
    add_node(cv, HostDict("Node-" \o ToString(cv.next_node_id),
                          DefaultIp(cv.next_node_id), ClickPos))

\* add_discovered_nodes(discovered_nodes): one add_node per record, in order,
\* with a node_data whose "ip" is the record's (discovered_nodes: the "ip" of
\* each record).  No record is compared with the nodes registered.
RECURSIVE add_discovered_nodes(_, _)
add_discovered_nodes(cv, discovered_nodes) ==
    IF discovered_nodes = <<>>
    THEN [canvas |-> cv, ids |-> <<>>]
    ELSE LET ip   == Head(discovered_nodes)
             r    == add_node(cv, HostDict("Host-" \o LastOctet(ip), ip,
                                           RandomPos))
             rest == add_discovered_nodes(r.canvas, Tail(discovered_nodes))
         IN  [canvas |-> rest.canvas, ids |-> <<r.ret>> \o rest.ids]

\* A variant of conn_key that keeps the order of its arguments.
conn_key_as_given(source_id, target_id) == <<source_id, target_id>>

\* conn_key = (min(source_id, target_id), max(source_id, target_id))
conn_key(source_id, target_id) ==
    <<Min(source_id, target_id), Max(source_id, target_id)>>

\* d.get(k): the value under k, None when the dict has no such key.  In a
\* connection record None under "l1" or "l2" stands for a dict without it.
Get(d, k) == IF k \in DOMAIN d THEN d[k] ELSE None

\* add_connection's "if connection_data is None" block: the default record, or
\* the connection_data supplied.
connection_record(source_id, target_id, connection_data) ==
    IF connection_data.kind = "None"
    THEN [source |-> source_id, target |-> target_id, type |-> "ethernet",
          l1 |-> None, l2 |-> None]
    ELSE [source |-> connection_data.source, target |-> connection_data.target,
          type |-> connection_data.type,
          l1 |-> Get(connection_data, "l1"), l2 |-> Get(connection_data, "l2")]

\* A variant of add_connection without the source_id == target_id return.
add_connection_without_self_check(cv, source_id, target_id, connection_data) ==
    IF source_id \notin DOMAIN cv.nodes \/ target_id \notin DOMAIN cv.nodes
    THEN [canvas |-> cv, ret |-> "None"]
    ELSE IF conn_key(source_id, target_id) \in DOMAIN cv.connections
    THEN [canvas |-> cv, ret |-> "None"]
    ELSE [canvas |-> [cv EXCEPT !.connections =
                         Put(cv.connections, conn_key(source_id, target_id),
                             connection_record(source_id, target_id,
                                               connection_data))],
          ret |-> "None"]

\* A variant of add_connection without the "conn_key in self.connections"
\* return: the record of a pair already connected is replaced.
add_connection_overwriting(cv, source_id, target_id, connection_data) ==
    IF source_id \notin DOMAIN cv.nodes \/ target_id \notin DOMAIN cv.nodes
    THEN [canvas |-> cv, ret |-> "None"]
    ELSE IF source_id = target_id
    THEN [canvas |-> cv, ret |-> "None"]
    ELSE [canvas |-> [cv EXCEPT !.connections =
                         Put(cv.connections, conn_key(source_id, target_id),
                             connection_record(source_id, target_id,
                                               connection_data))],
          ret |-> "None"]

\* add_connection(source_id, target_id, connection_data): the three early
\* returns, then the insertion under conn_key.  Every path returns None.
add_connection(cv, source_id, target_id, connection_data) ==
    IF source_id \notin DOMAIN cv.nodes \/ target_id \notin DOMAIN cv.nodes
    THEN [canvas |-> cv, ret |-> "None"]
    ELSE IF source_id = target_id
    THEN [canvas |-> cv, ret |-> "None"]
    ELSE IF conn_key(source_id, target_id) \in DOMAIN cv.connections
    THEN [canvas |-> cv, ret |-> "None"]
    ELSE [canvas |-> [cv EXCEPT !.connections =
                         Put(cv.connections, conn_key(source_id, target_id),
                             connection_record(source_id, target_id,
                                               connection_data))],
          ret |-> "None"]

\* A variant of update_connection that registers the record when the pair
\* has no connection.
update_connection_inserting(cv, connection_data) ==
    LET key == conn_key(connection_data.source, connection_data.target)
    IN  [cv EXCEPT !.connections =
            Put(@, key, connection_record(connection_data.source,
                                          connection_data.target,
                                          connection_data))]

\* update_connection(connection_data): dict.update of the record stored under
\* the key of connection_data's source and target, nothing when there is none.
update_connection(cv, connection_data) ==
    LET key == conn_key(connection_data.source, connection_data.target)
    IN  IF key \in DOMAIN cv.connections
        THEN [cv EXCEPT !.connections[key] =
                 [source |-> connection_data.source,
                  target |-> connection_data.target,
                  type |-> connection_data.type,
                  l1 |-> IF Get(connection_data, "l1") # None
                         THEN connection_data.l1 ELSE @.l1,
                  l2 |-> IF Get(connection_data, "l2") # None
                         THEN connection_data.l2 ELSE @.l2]]
        ELSE cv

\* delete_connection(connection): the item's key is looked up and, when the
\* item is (still) registered, the entry is deleted.
delete_connection(cv, key) ==
    IF key \in DOMAIN cv.connections
    THEN [cv EXCEPT !.connections = Remove(cv.connections, key)]
    ELSE cv

\* A variant of connections_to_remove that looks at the first end only.
connections_to_remove_source_only(cv, node_id) ==
    {k \in DOMAIN cv.connections : k[1] = node_id}

\* delete_node, first loop: the keys of the connections with node_id at an end.
connections_to_remove(cv, node_id) ==
    {k \in DOMAIN cv.connections : k[1] = node_id \/ k[2] = node_id}

\* delete_node, last statement: del self.nodes[node_id].
\* A variant of auto_layout that builds the graph from the connections alone.
auto_layout_of_connected(cv) ==
    LET G == UNION {{k[1], k[2]} : k \in DOMAIN cv.connections}
        placed == G \cap DOMAIN cv.nodes
    IN  [canvas |-> [cv EXCEPT !.nodes =
                        [i \in DOMAIN cv.nodes |->
                            IF i \in placed THEN [@[i] EXCEPT !.pos = LayoutPos]
                            ELSE @[i]]],
         placed |-> placed]

\* auto_layout rebuilding the scene without its connection items.
auto_layout_dropping_connections(cv) ==
    [canvas |-> [cv EXCEPT
                    !.nodes = [i \in DOMAIN cv.nodes |->
                                  [@[i] EXCEPT !.pos = LayoutPos]],
                    !.connections = EmptyMap],
     placed |-> DOMAIN cv.nodes]

\* auto_layout(): nothing without nodes; else the graph G of every registered
\* id and every connection key, spring_layout, which gives each node of G a
\* position, and setPos with "x" and "y" for each of them that is registered.
auto_layout(cv) ==
    LET G == DOMAIN cv.nodes
                \cup UNION {{k[1], k[2]} : k \in DOMAIN cv.connections}
        placed == G \cap DOMAIN cv.nodes
    IN  IF DOMAIN cv.nodes = {} THEN [canvas |-> cv, placed |-> {}]
        ELSE [canvas |-> [cv EXCEPT !.nodes =
                        [i \in DOMAIN cv.nodes |->
                            IF i \in placed THEN [@[i] EXCEPT !.pos = LayoutPos]
                            ELSE @[i]]],
              placed |-> placed]

\* The names of the nodes in ids, in the order of their ids (the order in
\* which a Python set of small ints is iterated).
RECURSIVE names_of(_, _)
names_of(nodes, ids) ==
    IF ids = {} THEN <<>>
    ELSE LET i == CHOOSE i \in ids : \A j \in ids : i <= j
         IN  <<nodes[i].name>> \o names_of(nodes, ids \ {i})

\* A variant of get_isolated_nodes that counts a connection's first id alone
\* as connected.
get_isolated_nodes_first_id_only(cv) ==
    LET all_node_ids == DOMAIN cv.nodes
        connected_node_ids == {k[1] : k \in DOMAIN cv.connections}
    IN  names_of(cv.nodes, all_node_ids \ connected_node_ids)

\* get_isolated_nodes(): the names of the registered nodes whose id is in no
\* key of the connection registry.
get_isolated_nodes(cv) ==
    LET all_node_ids == DOMAIN cv.nodes
        connected_node_ids ==
            UNION {{k[1], k[2]} : k \in DOMAIN cv.connections}
    IN  names_of(cv.nodes, all_node_ids \ connected_node_ids)

\* update_node(node_data): the item registered under node_data["id"] takes
\* the keys of node_data (here "ip"); for an id that is not registered
\* nothing is done and nothing is raised.
update_node(cv, node_data) ==
    IF node_data.id \in DOMAIN cv.nodes
    THEN [cv EXCEPT !.nodes[node_data.id].ip = node_data.ip]
    ELSE cv

remove_node(cv, node_id) == [cv EXCEPT !.nodes = Remove(cv.nodes, node_id)]

\* clear(): both registries emptied, the counter back at 1.
clear(cv) == [nodes |-> EmptyMap, connections |-> EmptyMap, next_node_id |-> 1]

\* load_data, first loop: clear(), then add_node for each node of the document
\* (doc_nodes: the ids recorded in the document, which add_node overwrites).
RECURSIVE load_nodes(_, _)
load_nodes(cv, doc_nodes) ==
    IF doc_nodes = <<>>
    THEN [canvas |-> cv, ids |-> <<>>]
    ELSE LET r    == add_node(cv, NodeDict(Head(doc_nodes)))
             rest == load_nodes(r.canvas, Tail(doc_nodes))
         IN  [canvas |-> rest.canvas, ids |-> <<r.ret>> \o rest.ids]

\* load_data, second loop body: records with a falsy source or target are
\* skipped, the others go through add_connection with the record as data.
load_connection(cv, connection_data) ==
    IF connection_data.source # 0 /\ connection_data.target # 0
    THEN add_connection(cv, connection_data.source, connection_data.target,
                        connection_data).canvas
    ELSE cv

\* ------------------------------------------------------------- inputs
\* Addresses a scan may report.
Addrs == {"10.0.0.5", "10.0.0.6"}
\* discovered_nodes as NetworkScannerWidget.scan_finished emits them: a
\* non-empty list of host records, here their addresses.
HostLists == UNION {[1..n -> Addrs] : n \in 1..MaxHosts}
\* The lists one scan delivers: NetworkScannerThread.run visits the hosts of
\* the network once each, in ascending order.
HostOrder == <<"10.0.0.5", "10.0.0.6">>
HostRank(ip) == CHOOSE i \in DOMAIN HostOrder : HostOrder[i] = ip
ScanLists ==
    {s \in HostLists :
        \A i \in DOMAIN s : \A j \in DOMAIN s :
            i < j => HostRank(s[i]) < HostRank(s[j])}

\* The "nodes" section of a document: records with distinct ids, ascending.
DocNodeLists ==
    {s \in UNION {[1..n -> NodeIds] : n \in 0..MaxNodeId} :
        \A i \in DOMAIN s : \A j \in DOMAIN s : i < j => s[i] < s[j]}

\* ------------------------------------------------------------- history
\* The record kept in `last`: the operation, the node id it was about (0:
\* none), how it ended, what it returned and, for add_connection, the "type"
\* of the connection_data supplied ("default" when none was) and, for a
\* discovery merge, the list of hosts it was given.
Last(op, id, outcome, ret) ==
    [op |-> op, id |-> id, outcome |-> outcome, ret |-> ret, arg |-> "none",
     hosts |-> <<>>, names |-> <<>>, placed |-> {}]
\* A call that returned a list of names.
LastNames(op, names) ==
    [op |-> op, id |-> 0, outcome |-> "returned", ret |-> "list",
     arg |-> "none", hosts |-> <<>>, names |-> names, placed |-> {}]
\* An auto_layout that called setPos for the nodes in placed.
LastLayout(op, placed) ==
    [op |-> op, id |-> 0, outcome |-> "laid_out", ret |-> "None",
     arg |-> "none", hosts |-> <<>>, names |-> <<>>, placed |-> placed]
LastAdd(outcome, ret, connection_data) ==
    [op |-> "add_connection", id |-> 0, outcome |-> outcome, ret |-> ret,
     arg |-> IF connection_data.kind = "None" THEN "default"
             ELSE connection_data.type,
     hosts |-> <<>>, names |-> <<>>, placed |-> {}]
LastMerge(op, discovered_nodes) ==
    [op |-> op, id |-> 0, outcome |-> "added", ret |-> "None", arg |-> "none",
     hosts |-> discovered_nodes, names |-> <<>>, placed |-> {}]

\* What the handler in progress still has to do:
\*   items     delete_selected: the selected items not yet visited
\*   cur       delete_node: the node being deleted (0: none)
\*   pending   delete_node: connections_to_remove not yet deleted
\*   deleted   delete_node: connections_to_remove already deleted
\*   l         load_data: the layer being loaded
\*   levels    on_project_loaded: the layers still to load after l
\*   doc_nodes on_project_loaded: the "nodes" section of the document
\*   left      load_data: how many more connection records the list may hold
\*   slot      "on_project_loaded" while that slot runs load_data, else "none"
NoWork ==
    [items |-> <<>>, cur |-> 0, pending |-> {}, deleted |-> {}, l |-> "l1",
     levels |-> <<>>,
     doc_nodes |-> <<>>, left |-> 0, slot |-> "none"]

NodeItem(i) == [kind |-> "node", id |-> i, key |-> <<0, 0>>]
ConnItem(k) == [kind |-> "conn", id |-> 0, key |-> k]

\* How a call add_connection(source_id, target_id) relates to the canvas it
\* is made on, read off the state before the call.
AddCase(cv, source_id, target_id) ==
    IF source_id \notin DOMAIN cv.nodes \/ target_id \notin DOMAIN cv.nodes
    THEN "unknown_id"
    ELSE IF source_id = target_id THEN "self_loop"
    ELSE IF \E k \in DOMAIN cv.connections :
                {k[1], k[2]} = {source_id, target_id}
    THEN "pair_exists"
    ELSE "fresh"

Idle == pc = "idle" /\ ~crashed

\* The model's cap on insertions: a call that would insert is made only on a
\* canvas holding fewer than MaxConns connections.
WithinConns(cv, source_id, target_id) ==
    AddCase(cv, source_id, target_id) = "fresh"
        => Cardinality(DOMAIN cv.connections) < MaxConns

\* ------------------------------------------------------------- scanner
\* NetworkScanner.__init__: scanner_thread = None.  A NetworkScannerThread is
\*   at         "loop" at the top of run's for loop, "probe" inside
\*              _ping_host, "finish" past the loop, "return" once
\*              scan_finished is emitted, "done" once run has returned
\*              and the thread has ended
\*   hosts      network.hosts(), the addresses of target_network in order
\*   host       how many of them the loop has taken
\*   stop_scan  the flag stop() sets
\*   found      run's local discovered_nodes
\*   probed     history: the addresses _ping_host was called for
\*   connections  how many times NetworkScannerWidget.start_scan connected
\*              the signals of this thread to the handlers of the widget
NoThread ==
    [at |-> "none", hosts |-> <<>>, host |-> 0, stop_scan |-> FALSE,
     found |-> <<>>, probed |-> <<>>, connections |-> 0]
\* QThread.isRunning()
isRunning(th) == th.at \in {"loop", "probe", "finish", "return"}
\* NetworkScannerWidget.init_ui: start enabled, stop disabled.
ScannerWidget == [start_button |-> TRUE, stop_button |-> FALSE]
\*   scans      start_scan calls that started a thread
\*   emitted    the lists nodes_discovered emitted since the last such call
NoScan == [scans |-> 0, emitted |-> <<>>]

\* ------------------------------------------------------------- files
\* The paths the file dialogs may return, and the files save_project touches.
Paths == {"a.json"}
Backup(file_path) == file_path \o ".backup"
Files == Paths \cup {Backup(file_path) : file_path \in Paths}
\* Optional[str] file_path = None
NoPath == ""

\* What a path holds: no file, the text json.dump wrote for a value, or text
\* json.load cannot parse (a write that broke off leaves such a file).
Absent == [kind |-> "absent"]
Malformed == [kind |-> "malformed"]
JsonText(value) == [kind |-> "json", value |-> value]

\* ProjectState(): no file, no unsaved changes.  original_data is read by
\* on_project_loaded alone, in the handler that set it, and is handed over
\* there directly.
ProjectState == [file_path |-> NoPath, has_unsaved_changes |-> FALSE]

\* AppStateManager.max_recent_files
max_recent_files == 10

\* list.remove(x): the list without its first x.
RECURSIVE list_remove(_, _)
list_remove(list, x) ==
    IF list = <<>> THEN <<>>
    ELSE IF Head(list) = x THEN Tail(list)
    ELSE <<Head(list)>> \o list_remove(Tail(list), x)

\* _add_recent_file without the `if file_path in self.recent_files` branch.
_add_recent_file_keeping(recent, file_path) ==
    LET inserted == <<file_path>> \o recent
    IN  IF Len(inserted) > max_recent_files
        THEN SubSeq(inserted, 1, max_recent_files)
        ELSE inserted

\* _add_recent_file(file_path): the path is taken out of the list if it is
\* there, put first, and the list cut to max_recent_files entries.
_add_recent_file(recent, file_path) ==
    LET removed  == IF \E i \in DOMAIN recent : recent[i] = file_path
                    THEN list_remove(recent, file_path) ELSE recent
        inserted == <<file_path>> \o removed
    IN  IF Len(inserted) > max_recent_files
        THEN SubSeq(inserted, 1, max_recent_files)
        ELSE inserted

\* The record kept in `io`: the file operation, its path, what it returned
\* (ret) or raised (exc), the document it was given or returned (data), the
\* files as they were before it (before), the signals its handler emitted,
\* whether a close event was accepted, and what DataManager.save_project
\* returned to the handler ("None" if it was not called).
IoRecord(op, file_path, ret, exc, data, before, signals, accepted, saved) ==
    [op |-> op, path |-> file_path, ret |-> ret, exc |-> exc, data |-> data,
     before |-> before, signals |-> signals, accepted |-> accepted,
     saved |-> saved]
NoFiles == [f \in Files |-> Absent]
NoIo ==
    IoRecord("none", NoPath, "None", "none", None, NoFiles, {}, FALSE, "None")

\* ------------------------------------------------------------- DataManager
\* A document is a dict: a function from its keys to their values.
\* The "topologies" section of create_new_project and _validate_project_data.
EmptyTopologies == [l \in Layers |-> [connections |-> <<>>]]

\* create_new_project(name), created at time now.
create_new_project(name, now) ==
    [metadata |-> [name |-> name, created |-> now, modified |-> now,
                   version |-> "1.2"],
     nodes |-> <<>>,
     topologies |-> EmptyTopologies,
     settings |-> [auto_layout |-> TRUE]]

\* save_project, the metadata update: data["metadata"] is created if missing
\* and its "modified" set (in the caller's dict).
stamp_modified(data, now) ==
    LET metadata == IF "metadata" \in DOMAIN data THEN data.metadata
                    ELSE EmptyMap
    IN  Put(data, "metadata", Put(metadata, "modified", now))

\* Where save_project may fail: os.remove of the old backup, os.rename of the
\* file, open(file_path, 'w'), json.dump (a value json cannot encode, a full
\* disk), or nowhere.
SaveFaults == {"none", "remove", "rename", "open", "write"}

\* Whether save_project reaches the statement the fault is in.
FaultApplies(files, file_path, fault) ==
    CASE fault = "remove" -> /\ files[file_path].kind # "absent"
                             /\ files[Backup(file_path)].kind # "absent"
      [] fault = "rename" -> files[file_path].kind # "absent"
      [] OTHER -> TRUE

\* A variant of save_project that leaves an existing backup in place and
\* writes over the file.
save_project_keeping_backup(files, cur, data, file_path, now, fault) ==
    LET stamped == stamp_modified(data, now)
        backup_path == Backup(file_path)
        exists == files[file_path].kind # "absent"
        renamed == IF exists /\ files[backup_path].kind = "absent"
                   THEN [files EXCEPT ![backup_path] = files[file_path],
                                      ![file_path] = Absent]
                   ELSE files
        failed(f) == [files |-> f, current_project |-> cur, ret |-> FALSE,
                      data |-> stamped]
    IN  IF fault = "remove" THEN failed(files)
        ELSE IF fault = "rename" THEN failed(files)
        ELSE IF fault = "open" THEN failed(renamed)
        ELSE IF fault = "write"
        THEN failed([renamed EXCEPT ![file_path] = Malformed])
        ELSE [files |-> [renamed EXCEPT ![file_path] = JsonText(stamped)],
              current_project |-> stamped, ret |-> TRUE, data |-> stamped]

\* save_project(data, file_path) at time now, failing at `fault`: the metadata
\* update, the rotation of an existing file to the backup path (an old backup
\* removed first), the write.  Any exception is caught and False returned;
\* what was done before it stays done.
save_project(files, cur, data, file_path, now, fault) ==
    LET stamped == stamp_modified(data, now)
        backup_path == Backup(file_path)
        exists == files[file_path].kind # "absent"
        removed == IF exists /\ files[backup_path].kind # "absent"
                   THEN [files EXCEPT ![backup_path] = Absent]
                   ELSE files
        renamed == IF exists
                   THEN [removed EXCEPT ![backup_path] = files[file_path],
                                        ![file_path] = Absent]
                   ELSE removed
        failed(f) == [files |-> f, current_project |-> cur, ret |-> FALSE,
                      data |-> stamped]
    IN  IF fault = "remove" THEN failed(files)
        ELSE IF fault = "rename" THEN failed(removed)
        ELSE IF fault = "open" THEN failed(renamed)
        ELSE IF fault = "write"
        THEN failed([renamed EXCEPT ![file_path] = Malformed])
        ELSE [files |-> [renamed EXCEPT ![file_path] = JsonText(stamped)],
              current_project |-> stamped, ret |-> TRUE, data |-> stamped]

\* _validate_project_data(data): data.setdefault("topologies", ...).
_validate_project_data(data) ==
    IF "topologies" \in DOMAIN data THEN data
    ELSE Put(data, "topologies", EmptyTopologies)

\* A variant of load_project that takes a missing file for a new project.
load_project_creating(files, cur, file_path, now) ==
    LET data == IF files[file_path].kind = "json"
                THEN _validate_project_data(files[file_path].value)
                ELSE create_new_project("p", now)
        metadata == IF "metadata" \in DOMAIN data THEN data.metadata
                    ELSE EmptyMap
        loaded == Put(data, "metadata", Put(metadata, "loaded", now))
    IN  IF files[file_path].kind = "malformed"
        THEN [current_project |-> cur, ret |-> None, exc |-> "TypeError"]
        ELSE [current_project |-> loaded, ret |-> loaded, exc |-> "none"]

\* load_project(file_path) at time now.  A missing file raises
\* FileNotFoundError.  Text json.load cannot parse raises JSONDecodeError,
\* whose handler builds json.JSONDecodeError with one argument of the three
\* it requires: that raises TypeError, which leaves load_project.  Otherwise
\* the value is validated, metadata["loaded"] set, current_project assigned.
load_project(files, cur, file_path, now) ==
    IF files[file_path].kind = "absent"
    THEN [current_project |-> cur, ret |-> None, exc |-> "FileNotFoundError"]
    ELSE IF files[file_path].kind = "malformed"
    THEN [current_project |-> cur, ret |-> None, exc |-> "TypeError"]
    ELSE LET data == _validate_project_data(files[file_path].value)
             metadata == IF "metadata" \in DOMAIN data THEN data.metadata
                         ELSE EmptyMap
             loaded == Put(data, "metadata", Put(metadata, "loaded", now))
         IN  [current_project |-> loaded, ret |-> loaded, exc |-> "none"]

\* ------------------------------------------------------------- initial state
\* ANMPApp.__init__: three empty canvases, the first tab (l1) shown, no
\* project (update_ui_from_state disables the project-dependent actions), and
\* no file at the paths.
Init ==
    /\ canvases = [l \in Layers |-> NewCanvas]
    /\ active = "l1"
    /\ crashed = FALSE
    /\ pc = "idle"
    /\ work = NoWork
    /\ last = Last("init", 0, "none", "None")
    /\ issued = [l \in Layers |-> <<>>]
    /\ assigned = [l \in Layers |-> {}]
    /\ has_project = FALSE
    /\ project_state = ProjectState
    /\ recent_files = <<>>
    /\ fs = NoFiles
    /\ clock = 0
    /\ current_project = None
    /\ io = NoIo
    /\ current_connection = None
    /\ scanner_thread = NoThread
    /\ scanner_nodes = <<>>
    /\ events = <<>>
    /\ scanner_widget = ScannerWidget
    /\ scan_log = NoScan

\* ------------------------------------------------------------- calls on one canvas
\* The methods of NetworkCanvas called on the canvas of layer `active`.

Canvas_add_node ==
    /\ Idle
    /\ canvases[active].next_node_id <= MaxNodeId
    /\ LET r == add_node(canvases[active], None)
       IN  /\ canvases' = [canvases EXCEPT ![active] = r.canvas]
           /\ issued' = [issued EXCEPT ![active] = Append(@, r.ret)]
           /\ assigned' = [assigned EXCEPT ![active] = @ \cup {r.ret}]
           /\ last' = Last("add_node", 0, "added", "id")
    /\ UNCHANGED <<active, crashed, pc, work>>
    /\ UNCHANGED <<appVars, fileVars>>
    /\ UNCHANGED scanVars

Canvas_add_node_at_position ==
    /\ Idle
    /\ canvases[active].next_node_id <= MaxNodeId
    /\ LET r == add_node_at_position(canvases[active])
       IN  /\ canvases' = [canvases EXCEPT ![active] = r.canvas]
           /\ issued' = [issued EXCEPT ![active] = Append(@, r.ret)]
           /\ assigned' = [assigned EXCEPT ![active] = @ \cup {r.ret}]
           /\ last' = Last("add_node_at_position", 0, "added", "id")
    /\ UNCHANGED <<active, crashed, pc, work>>
    /\ UNCHANGED <<appVars, fileVars>>
    /\ UNCHANGED scanVars

Canvas_add_discovered_nodes ==
    /\ Idle
    /\ \E discovered_nodes \in HostLists :
          /\ canvases[active].next_node_id + Len(discovered_nodes) - 1
                <= MaxNodeId
          /\ LET r == add_discovered_nodes(canvases[active], discovered_nodes)
             IN  /\ canvases' = [canvases EXCEPT ![active] = r.canvas]
                 /\ issued' = [issued EXCEPT ![active] = @ \o r.ids]
                 /\ assigned' = [assigned EXCEPT ![active] = @ \cup Range(r.ids)]
                 /\ last' = LastMerge("add_discovered_nodes", discovered_nodes)
    /\ UNCHANGED <<active, crashed, pc, work>>
    /\ UNCHANGED <<appVars, fileVars>>
    /\ UNCHANGED scanVars

Canvas_add_connection ==
    /\ Idle
    /\ \E source_id \in NodeIds, target_id \in NodeIds :
       \E connection_data \in
             {None} \cup {ConnDict(source_id, target_id, ty) : ty \in ConnTypes} :
          /\ WithinConns(canvases[active], source_id, target_id)
          /\ LET r == add_connection(canvases[active], source_id, target_id,
                                  connection_data)
             IN  /\ canvases' = [canvases EXCEPT ![active] = r.canvas]
                 /\ last' = LastAdd(
                          AddCase(canvases[active], source_id, target_id),
                          r.ret, connection_data)
    /\ UNCHANGED <<active, crashed, pc, work, issued, assigned>>
    /\ UNCHANGED <<appVars, fileVars>>
    /\ UNCHANGED scanVars

Canvas_get_isolated_nodes ==
    /\ Idle
    /\ last' = LastNames("get_isolated_nodes",
                         get_isolated_nodes(canvases[active]))
    /\ UNCHANGED <<canvases, active, crashed, pc, work, issued, assigned>>
    /\ UNCHANGED <<appVars, fileVars>>
    /\ UNCHANGED scanVars

Canvas_update_connection ==
    /\ Idle
    /\ \E source_id \in NodeIds, target_id \in NodeIds, ty \in ConnTypes :
          /\ canvases' = [canvases EXCEPT ![active] =
                 update_connection(@, ConnDict(source_id, target_id, ty))]
          /\ last' = Last("update_connection", 0,
                          IF conn_key(source_id, target_id)
                                \in DOMAIN canvases[active].connections
                          THEN "found" ELSE "absent", "None")
    /\ UNCHANGED <<active, crashed, pc, work, issued, assigned>>
    /\ UNCHANGED <<appVars, fileVars>>
    /\ UNCHANGED scanVars

Canvas_delete_connection ==
    /\ Idle
    /\ \E key \in DOMAIN canvases[active].connections :
          /\ canvases' = [canvases EXCEPT ![active] = delete_connection(@, key)]
          /\ last' = Last("delete_connection", 0, "removed", "None")
    /\ UNCHANGED <<active, crashed, pc, work, issued, assigned>>
    /\ UNCHANGED <<appVars, fileVars>>
    /\ UNCHANGED scanVars

\* delete_node(node_id) up to the end of its first loop: nothing for an id that
\* is not registered, otherwise connections_to_remove is collected.
Canvas_update_node ==
    /\ Idle
    /\ \E node_id \in NodeIds, ip \in Addrs :
          /\ canvases' = [canvases EXCEPT ![active] =
                 update_node(@, [kind |-> "dict", id |-> node_id, ip |-> ip])]
          /\ last' = Last("update_node", node_id,
                          IF node_id \in DOMAIN canvases[active].nodes
                          THEN "found" ELSE "absent", "None")
    /\ UNCHANGED <<active, crashed, pc, work, issued, assigned>>
    /\ UNCHANGED <<appVars, fileVars>>
    /\ UNCHANGED scanVars

Canvas_delete_node ==
    /\ Idle
    /\ \E node_id \in NodeIds :
          IF node_id \in DOMAIN canvases[active].nodes
          THEN /\ pc' = "delete"
               /\ work' = [NoWork EXCEPT !.cur = node_id,
                      !.pending = connections_to_remove(canvases[active], node_id)]
               /\ last' = Last("delete_node", node_id, "cascading", "None")
          ELSE /\ UNCHANGED <<pc, work>>
               /\ last' = Last("delete_node", node_id, "absent", "None")
    /\ UNCHANGED <<canvases, active, crashed, issued, assigned>>
    /\ UNCHANGED <<appVars, fileVars>>
    /\ UNCHANGED scanVars

Canvas_clear ==
    /\ Idle
    /\ canvases' = [canvases EXCEPT ![active] = clear(@)]
    /\ issued' = [issued EXCEPT ![active] = <<>>]
    /\ last' = Last("clear", 0, "cleared", "None")
    /\ UNCHANGED <<active, crashed, pc, work, assigned>>
    /\ UNCHANGED <<appVars, fileVars>>
    /\ UNCHANGED scanVars

\* load_data(data) up to the end of its first loop.
Canvas_load_data ==
    /\ Idle
    /\ \E doc_nodes \in DocNodeLists :
          LET r == load_nodes(clear(canvases[active]), doc_nodes)
          IN  /\ canvases' = [canvases EXCEPT ![active] = r.canvas]
              /\ issued' = [issued EXCEPT ![active] = r.ids]
              /\ assigned' = [assigned EXCEPT ![active] = @ \cup Range(r.ids)]
              /\ pc' = "load"
              /\ work' = [NoWork EXCEPT !.l = active, !.doc_nodes = doc_nodes,
                                        !.left = MaxDocConns]
              /\ last' = Last("load_data", 0, "loading", "None")
    /\ UNCHANGED <<active, crashed>>
    /\ UNCHANGED <<appVars, fileVars>>
    /\ UNCHANGED scanVars

\* ------------------------------------------------------------- handler steps
\* The statements a handler runs after its first loop, one at a time.  While
\* pc is not "idle" no other handler starts (one GUI thread).

\* delete_selected: the next selected item.  A node starts delete_node, a
\* connection goes to delete_connection.
delete_selected_item ==
    /\ pc = "delete" /\ ~crashed
    /\ work.cur = 0
    /\ work.items # <<>>
    /\ LET item == Head(work.items)
           rest == Tail(work.items)
           cv   == canvases[active]
       IN  IF item.kind = "node"
           THEN IF item.id \in DOMAIN cv.nodes
                THEN /\ work' = [work EXCEPT !.items = rest, !.cur = item.id,
                            !.pending = connections_to_remove(cv, item.id)]
                     /\ last' = Last("delete_node", item.id, "cascading", "None")
                     /\ UNCHANGED <<canvases, pc>>
                ELSE /\ work' = [work EXCEPT !.items = rest]
                     /\ pc' = IF rest = <<>> THEN "idle" ELSE "delete"
                     /\ last' = Last("delete_node", item.id, "absent", "None")
                     /\ UNCHANGED canvases
           ELSE /\ canvases' = [canvases EXCEPT ![active] =
                       delete_connection(@, item.key)]
                /\ work' = [work EXCEPT !.items = rest]
                /\ pc' = IF rest = <<>> THEN "idle" ELSE "delete"
                /\ last' = Last("delete_connection", 0,
                                IF item.key \in DOMAIN cv.connections
                                THEN "removed" ELSE "absent", "None")
    /\ UNCHANGED <<active, crashed, issued, assigned>>
    /\ UNCHANGED <<appVars, fileVars>>
    /\ UNCHANGED scanVars

\* delete_node, second loop: delete_connection for one of connections_to_remove.
delete_node_connection ==
    /\ pc = "delete" /\ ~crashed
    /\ work.cur # 0
    /\ \E key \in work.pending :
          /\ canvases' = [canvases EXCEPT ![active] = delete_connection(@, key)]
          /\ work' = [work EXCEPT !.pending = @ \ {key},
                                   !.deleted = @ \cup {key}]
    /\ UNCHANGED <<active, crashed, pc, last, issued, assigned>>
    /\ UNCHANGED <<appVars, fileVars>>
    /\ UNCHANGED scanVars

\* delete_node, last statements: the node leaves the registry.
delete_node_remove ==
    /\ pc = "delete" /\ ~crashed
    /\ work.cur # 0
    /\ work.pending = {}
    /\ canvases' = [canvases EXCEPT ![active] = remove_node(@, work.cur)]
    /\ work' = [work EXCEPT !.cur = 0, !.deleted = {}]
    /\ pc' = IF work.items = <<>> THEN "idle" ELSE "delete"
    /\ last' = Last("delete_node", work.cur, "removed", "None")
    /\ UNCHANGED <<active, crashed, issued, assigned>>
    /\ UNCHANGED <<appVars, fileVars>>
    /\ UNCHANGED scanVars

\* load_data, second loop: the next connection record of the layer's list.
load_data_connection ==
    /\ pc = "load" /\ ~crashed
    /\ work.left > 0
    /\ \E source \in ArgIds, target \in ArgIds, ty \in ConnTypes :
          /\ WithinConns(canvases[work.l], source, target)
          /\ canvases' = [canvases EXCEPT ![work.l] =
                 load_connection(@, ConnDict(source, target, ty))]
    /\ work' = [work EXCEPT !.left = @ - 1]
    /\ UNCHANGED <<active, crashed, pc, last, issued, assigned>>
    /\ UNCHANGED <<appVars, fileVars>>
    /\ UNCHANGED scanVars

\* load_data returns (the list has no further record).  on_project_loaded
\* then goes on to the next canvas, or ends with update_ui_from_state.
load_data_return ==
    /\ pc = "load" /\ ~crashed
    /\ IF work.levels = <<>>
       THEN /\ pc' = "idle"
            /\ work' = NoWork
            /\ last' = Last("load_data", 0, "loaded", "None")
            /\ has_project' =
                  IF work.slot = "on_project_loaded"
                  THEN (project_state.file_path # NoPath
                           \/ project_state.has_unsaved_changes)
                  ELSE has_project
            /\ UNCHANGED <<canvases, issued, assigned>>
       ELSE LET l == Head(work.levels)
                r == load_nodes(clear(canvases[l]), work.doc_nodes)
            IN  /\ canvases' = [canvases EXCEPT ![l] = r.canvas]
                /\ issued' = [issued EXCEPT ![l] = r.ids]
                /\ assigned' = [assigned EXCEPT ![l] = @ \cup Range(r.ids)]
                /\ work' = [work EXCEPT !.l = l, !.levels = Tail(@),
                                        !.left = MaxDocConns]
                /\ UNCHANGED <<pc, last, has_project>>
    /\ UNCHANGED <<active, crashed, project_state, recent_files, fileVars,
                   current_connection>>
    /\ UNCHANGED scanVars

\* ------------------------------------------------------------- one canvas
NextCanvas ==
    \/ Canvas_add_node
    \/ Canvas_get_isolated_nodes
    \/ Canvas_add_connection
    \/ Canvas_update_connection
    \/ Canvas_delete_connection
    \/ Canvas_delete_node
    \/ Canvas_clear
    \/ Canvas_load_data
    \/ delete_node_connection
    \/ delete_node_remove
    \/ load_data_connection
    \/ load_data_return

\* One canvas on its own (the one of the tab that is shown): its nodes, all
\* created by add_node(), and every call on its connections.
SpecCanvas == Init /\ [][NextCanvas]_vars

\* ------------------------------------------------------------- one canvas, nodes
NextNodes ==
    \/ Canvas_add_node
    \/ Canvas_update_node
    \/ Canvas_add_node_at_position
    \/ Canvas_add_discovered_nodes
    \/ Canvas_delete_node
    \/ delete_node_remove
    \/ Canvas_clear

\* The model's cap for the registry runs: add_node and load_data while they
\* leave the counter of the canvas at most one past MaxRegistryNodeId.
Canvas_add_node_capped ==
    /\ canvases[active].next_node_id <= MaxRegistryNodeId
    /\ Canvas_add_node
Canvas_load_data_capped ==
    /\ Canvas_load_data
    /\ Len(work'.doc_nodes) <= MaxRegistryNodeId
\* And add_connection, called by the user or by load_data, while the canvas
\* comes to hold at most MaxRegistryConns connections.
RegistryConns(cv) == Cardinality(DOMAIN cv.connections)
Canvas_add_connection_capped ==
    /\ Canvas_add_connection
    /\ RegistryConns(canvases'[active]) <= MaxRegistryConns
load_data_connection_capped ==
    /\ load_data_connection
    /\ RegistryConns(canvases'[work.l]) <= MaxRegistryConns

NextRegistry ==
    \/ Canvas_add_node_capped
    \/ Canvas_update_node
    \/ Canvas_add_connection_capped
    \/ Canvas_update_connection
    \/ Canvas_delete_connection
    \/ Canvas_delete_node
    \/ Canvas_clear
    \/ Canvas_load_data_capped
    \/ delete_node_connection
    \/ delete_node_remove
    \/ load_data_connection_capped
    \/ load_data_return

\* One canvas on its own: every call that writes one of its two registries.
SpecRegistry == Init /\ [][NextRegistry]_vars

\* One canvas on its own and every way to create and delete its nodes.
SpecNodes == Init /\ [][NextNodes]_vars

\* ------------------------------------------------------------- DataManager calls
\* A "topologies" section that holds the L1 layer alone.
PartialTopologies == [l \in {"l1"} |-> [connections |-> <<>>]]

\* The documents handed to save_project: what get_full_data builds for a
\* window without nodes (no "metadata"), a new project, a document without
\* "topologies" and one whose "topologies" lacks two layers.
Docs == {[nodes |-> <<>>, topologies |-> EmptyTopologies],
         create_new_project("p", 0),
         [nodes |-> <<>>],
         [nodes |-> <<>>, topologies |-> PartialTopologies]}

windowVars == <<canvases, active, crashed, pc, work, last, issued, assigned>>

\* DataManager.save_project(data, file_path), with or without an I/O failure.
DataManager_save_project ==
    /\ clock < MaxClock
    /\ \E data \in Docs, file_path \in Paths, fault \in SaveFaults :
         /\ FaultApplies(fs, file_path, fault)
         /\ LET r == save_project(fs, current_project, data, file_path,
                                  clock + 1, fault)
            IN  /\ fs' = r.files
                /\ current_project' = r.current_project
                /\ io' = IoRecord("save_project", file_path,
                                  IF r.ret THEN "True" ELSE "False", "none",
                                  r.data, fs, {}, FALSE,
                                  IF r.ret THEN "True" ELSE "False")
    /\ clock' = clock + 1
    /\ UNCHANGED <<windowVars, appVars>>
    /\ UNCHANGED scanVars

\* DataManager.load_project(file_path).
DataManager_load_project ==
    /\ clock < MaxClock
    /\ \E file_path \in Paths :
         LET r == load_project(fs, current_project, file_path, clock + 1)
         IN  /\ current_project' = r.current_project
             /\ io' = IoRecord("load_project", file_path,
                               IF r.exc = "none" THEN "dict" ELSE "None",
                               r.exc, r.ret, fs, {}, FALSE, "None")
    /\ clock' = clock + 1
    /\ UNCHANGED <<windowVars, appVars, fs>>
    /\ UNCHANGED scanVars

\* DataManager.create_new_project(name): the document is returned; nothing
\* of the DataManager changes.
DataManager_create_new_project ==
    /\ clock < MaxClock
    /\ \E name \in {"p"} :
         io' = IoRecord("create_new_project", NoPath, "dict", "none",
                        create_new_project(name, clock + 1), fs, {}, FALSE,
                        "None")
    /\ clock' = clock + 1
    /\ UNCHANGED <<windowVars, appVars, fs, current_project>>
    /\ UNCHANGED scanVars

NextData ==
    \/ DataManager_save_project
    \/ DataManager_load_project
    \/ DataManager_create_new_project

\* DataManager on its own: saves and loads on one path.
SpecData == Init /\ [][NextData]_vars

\* ------------------------------------------------------------- ANMPApp
\* add_node_action, the loop over the canvases that are not the active one:
\* each gets add_node(node_data) with node_data the int returned by the active
\* canvas; the first exception ends the handler.
RECURSIVE add_node_to_others(_, _, _, _)
add_node_to_others(cs, levels, act, node_data) ==
    IF levels = <<>>
    THEN [canvases |-> cs, exc |-> "none"]
    ELSE IF Head(levels) = act
    THEN add_node_to_others(cs, Tail(levels), act, node_data)
    ELSE LET r == add_node(cs[Head(levels)], node_data)
         IN  IF r.exc # "none"
             THEN [canvases |-> cs, exc |-> r.exc]
             ELSE add_node_to_others([cs EXCEPT ![Head(levels)] = r.canvas],
                                     Tail(levels), act, node_data)

\* Sequences without repetition over S, of length lo..hi.
DistinctSeqs(S, lo, hi) ==
    {s \in UNION {[1..n -> S] : n \in lo..hi} :
        \A i \in DOMAIN s : \A j \in DOMAIN s : i # j => s[i] # s[j]}

\* The user shows another tab (topology_tabs).
switch_tab ==
    /\ Idle
    /\ \E l \in Layers \ {active} : active' = l
    /\ UNCHANGED <<canvases, crashed, pc, work, last, issued, assigned>>
    /\ UNCHANGED <<appVars, fileVars>>
    /\ UNCHANGED scanVars

\* add_node_action: add_node() on the active canvas, then add_node(<int>) on
\* the others.  The TypeError of the first of them is caught by nobody: PyQt
\* ends the process.
add_node_action ==
    /\ Idle
    /\ canvases[active].next_node_id <= MaxAppNodeId
    /\ LET r == add_node(canvases[active], None)
           o == add_node_to_others([canvases EXCEPT ![active] = r.canvas],
                                   Levels, active, IntValue(r.ret))
       IN  /\ canvases' = o.canvases
           /\ crashed' = (o.exc # "none")
           /\ issued' = [issued EXCEPT ![active] = Append(@, r.ret)]
           /\ assigned' = [assigned EXCEPT ![active] = @ \cup {r.ret}]
           /\ last' = Last("add_node_action", r.ret, o.exc, "None")
    /\ UNCHANGED <<active, pc, work>>
    /\ UNCHANGED <<appVars, fileVars>>
    /\ UNCHANGED scanVars

\* on_double_click: add_node_at_position on the canvas that was clicked.
on_double_click ==
    /\ Idle
    /\ canvases[active].next_node_id <= MaxAppNodeId
    /\ LET r == add_node_at_position(canvases[active])
       IN  /\ canvases' = [canvases EXCEPT ![active] = r.canvas]
           /\ issued' = [issued EXCEPT ![active] = Append(@, r.ret)]
           /\ assigned' = [assigned EXCEPT ![active] = @ \cup {r.ret}]
           /\ last' = Last("add_node_at_position", 0, "added", "id")
    /\ UNCHANGED <<active, crashed, pc, work>>
    /\ UNCHANGED <<appVars, fileVars>>
    /\ UNCHANGED scanVars

\* add_connection_action: with exactly two nodes selected, add_connection of
\* their ids on the active canvas; otherwise a warning.
add_connection_action ==
    /\ Idle
    /\ \E selected_nodes \in DistinctSeqs(DOMAIN canvases[active].nodes, 0, 2) :
          IF Len(selected_nodes) = 2
          THEN /\ WithinConns(canvases[active], selected_nodes[1],
                              selected_nodes[2])
               /\ LET r == add_connection(canvases[active], selected_nodes[1],
                                          selected_nodes[2], None)
                  IN  /\ canvases' = [canvases EXCEPT ![active] = r.canvas]
                      /\ last' = LastAdd(
                               AddCase(canvases[active], selected_nodes[1],
                                       selected_nodes[2]), r.ret, None)
          ELSE /\ last' = Last("add_connection_action", 0, "warning", "None")
               /\ UNCHANGED canvases
    /\ UNCHANGED <<active, crashed, pc, work, issued, assigned>>
    /\ UNCHANGED <<appVars, fileVars>>
    /\ UNCHANGED scanVars

\* delete_selected on the active canvas: the selected items, in some order.
\* The menu action (and its Delete shortcut) is enabled while has_project.
delete_selected ==
    /\ Idle
    /\ has_project
    /\ \E selected_items \in DistinctSeqs(
             {NodeItem(i) : i \in DOMAIN canvases[active].nodes}
                \cup {ConnItem(k) : k \in DOMAIN canvases[active].connections},
             1, MaxSelected) :
          work' = [NoWork EXCEPT !.items = selected_items]
    /\ pc' = "delete"
    /\ last' = Last("delete_selected", 0, "running", "None")
    /\ UNCHANGED <<canvases, active, crashed, issued, assigned>>
    /\ UNCHANGED <<appVars, fileVars>>
    /\ UNCHANGED scanVars

\* on_nodes_discovered: add_discovered_nodes on every canvas, then
\* mark_as_modified.
on_nodes_discovered ==
    /\ Idle
    /\ \E discovered_nodes \in ScanLists :
          /\ \A l \in Layers :
                canvases[l].next_node_id + Len(discovered_nodes) - 1
                    <= MaxAppNodeId
          /\ canvases' = [l \in Layers |->
                 add_discovered_nodes(canvases[l], discovered_nodes).canvas]
          /\ issued' = [l \in Layers |-> issued[l] \o
                 add_discovered_nodes(canvases[l], discovered_nodes).ids]
          /\ assigned' = [l \in Layers |-> assigned[l] \cup
                 Range(add_discovered_nodes(canvases[l], discovered_nodes).ids)]
          /\ last' = LastMerge("on_nodes_discovered", discovered_nodes)
    /\ project_state' = [project_state EXCEPT !.has_unsaved_changes = TRUE]
    /\ UNCHANGED <<active, crashed, pc, work, has_project, recent_files,
                   fileVars, current_connection>>
    /\ UNCHANGED scanVars

\* on_project_loaded: load_data on every canvas, in the order of Levels, each
\* with the document's nodes and that layer's connection list.  This is the
\* start, up to the end of the first loop of the first load_data.  The slot
\* runs when AppStateManager.load_project emits project_loaded, that is with
\* file_path set and has_unsaved_changes cleared; the document is whatever
\* the file opened held.
on_project_loaded ==
    /\ Idle
    /\ \E doc_nodes \in DocNodeLists, file_path \in Paths :
          /\ Len(doc_nodes) <= MaxAppNodeId
          /\ project_state' = [file_path |-> file_path,
                               has_unsaved_changes |-> FALSE]
          /\ recent_files' = _add_recent_file(recent_files, file_path)
          /\ LET l == Head(Levels)
                 r == load_nodes(clear(canvases[l]), doc_nodes)
             IN  /\ canvases' = [canvases EXCEPT ![l] = r.canvas]
                 /\ issued' = [issued EXCEPT ![l] = r.ids]
                 /\ assigned' = [assigned EXCEPT ![l] = @ \cup Range(r.ids)]
                 /\ work' = [NoWork EXCEPT !.l = l, !.levels = Tail(Levels),
                                !.doc_nodes = doc_nodes, !.left = MaxDocConns,
                                !.slot = "on_project_loaded"]
    /\ pc' = "load"
    /\ last' = Last("on_project_loaded", 0, "loading", "None")
    /\ UNCHANGED <<active, crashed, has_project, fileVars,
                   current_connection>>
    /\ UNCHANGED scanVars

Next ==
    \/ switch_tab
    \/ add_node_action
    \/ on_double_click
    \/ add_connection_action
    \/ delete_selected
    \/ on_nodes_discovered
    \/ on_project_loaded
    \/ delete_selected_item
    \/ delete_node_connection
    \/ delete_node_remove
    \/ load_data_connection
    \/ load_data_return

\* The main window and what its user can do.
Spec == Init /\ [][Next]_vars

\* ------------------------------------------------------------- ConnectionEditor
\* What the form's fields hold when apply_changes reads them: the port texts
\* (left empty) and the L2 type chosen in the combo box with the VLAN.
L1Values == {[kind |-> "dict", source_port |-> "", target_port |-> ""]}
L2Values == {[kind |-> "dict", type |-> t, vlan |-> 1] :
                t \in {"access", "trunk"}}

\* NetworkCanvas.on_selection_changed with a connection among the selected
\* items: connection_selected carries its connection_data to
\* ConnectionEditor.set_connection, which keeps it.  `layer` is history: the
\* layer of the canvas that emitted it.
on_selection_changed ==
    /\ Idle
    /\ \E k \in DOMAIN canvases[active].connections :
         LET c == canvases[active].connections[k]
         IN  current_connection' =
                [kind |-> "dict", layer |-> active, source |-> c.source,
                 target |-> c.target, type |-> c.type, l1 |-> c.l1,
                 l2 |-> c.l2]
    /\ last' = Last("on_selection_changed", 0, "connection", "None")
    /\ UNCHANGED <<canvases, active, crashed, pc, work, issued, assigned,
                   has_project, project_state, recent_files, fileVars>>
    /\ UNCHANGED scanVars

\* ConnectionEditor.apply_changes: the form's values are written into
\* current_connection and connection_updated is emitted; setup_connections
\* connected that signal to update_connection of every canvas.
apply_changes ==
    /\ Idle
    /\ current_connection # None
    /\ \E l1 \in L1Values, l2 \in L2Values :
         LET edited == [current_connection EXCEPT !.l1 = l1, !.l2 = l2]
         IN  /\ current_connection' = edited
             /\ canvases' = [l \in Layers |->
                                update_connection(canvases[l], edited)]
    /\ last' = Last("apply_changes", 0, "emitted", "None")
    /\ UNCHANGED <<active, crashed, pc, work, issued, assigned,
                   has_project, project_state, recent_files, fileVars>>
    /\ UNCHANGED scanVars

NextEditor ==
    \/ on_nodes_discovered
    \/ switch_tab
    \/ add_connection_action
    \/ on_selection_changed
    \/ apply_changes

\* The main window, its canvases and the connection editor.
SpecEditor == Init /\ [][NextEditor]_vars

\* ------------------------------------------------------------- layout
\* The "auto layout" action of the toolbar (always enabled) or of the menu:
\* get_active_canvas().auto_layout().
auto_layout_action ==
    /\ Idle
    /\ LET r == auto_layout(canvases[active])
       IN  /\ canvases' = [canvases EXCEPT ![active] = r.canvas]
           /\ last' = LastLayout("auto_layout", r.placed)
    /\ UNCHANGED <<active, crashed, pc, work, issued, assigned>>
    /\ UNCHANGED <<appVars, fileVars>>
    /\ UNCHANGED scanVars

\* The model's cap for the layout runs: add_connection_action while the three
\* canvases together hold fewer than MaxLayoutConns connections.
LayoutConns ==
    Cardinality({<<l, k>> \in Layers \X (NodeIds \X NodeIds) :
                    k \in DOMAIN canvases[l].connections})
add_connection_action_capped ==
    /\ LayoutConns < MaxLayoutConns
    /\ add_connection_action

NextLayout ==
    \/ on_nodes_discovered
    \/ switch_tab
    \/ add_connection_action_capped
    \/ auto_layout_action

\* The main window, its canvases and their layout.
SpecLayout == Init /\ [][NextLayout]_vars

\* ------------------------------------------------------------- scans
\* The target networks the user may enter: network.hosts() of each, in order.
Networks == {SubSeq(HostOrder, 1, n) : n \in 1..Len(HostOrder)}

\* The signals of a NetworkScannerThread that change something when handled;
\* node_discovered carries the record found (here its "ip").
NodeDiscovered(ip) == [signal |-> "node_discovered", node_info |-> ip]
ScanFinished == [signal |-> "scan_finished", node_info |-> "None"]

\* NetworkScanner._on_node_discovered: the record is appended to
\* discovered_nodes; self.canvas is None (set_canvas has no caller), so
\* nothing is added to a canvas here.
_on_node_discovered(nodes, node_info) == Append(nodes, node_info)

\* What an emission in run() may reach.
Reach == [events |-> events, scanner_nodes |-> scanner_nodes,
          canvases |-> canvases]

\* A variant of emit for a direct connection: the slots run inside emit, in
\* the thread that emits.
emit_direct(st, sig) ==
    IF sig.signal = "node_discovered"
    THEN [st EXCEPT !.scanner_nodes = _on_node_discovered(@, sig.node_info)]
    ELSE [st EXCEPT !.canvases = [l \in Layers |->
             add_discovered_nodes(@[l], st.scanner_nodes).canvas]]

\* signal.emit(...) in run(): the thread object and the receivers live in
\* the thread of the window, run() executes in the worker thread, so the
\* call is posted to the window's thread and the slots run there later.
emit(st, sig) == [st EXCEPT !.events = Append(@, sig)]

\* NetworkScannerWidget.scan_finished: the buttons go back, and a non-empty
\* scanner.get_discovered_nodes() is emitted with nodes_discovered.  That
\* signal is connected to ANMPApp.on_nodes_discovered in the same thread,
\* which runs at once: add_discovered_nodes on every canvas, then
\* mark_as_modified.
scan_finished ==
    /\ scanner_widget' = ScannerWidget
    /\ IF scanner_nodes # <<>>
       THEN \* added: what add_discovered_nodes gives on each canvas
            \E added \in {[l \in Layers |->
                    add_discovered_nodes(canvases[l], scanner_nodes)]} :
                /\ canvases' = [l \in Layers |-> added[l].canvas]
                /\ issued' = [l \in Layers |-> issued[l] \o added[l].ids]
                /\ assigned' = [l \in Layers |->
                                   assigned[l] \cup Range(added[l].ids)]
                /\ project_state' =
                       [project_state EXCEPT !.has_unsaved_changes = TRUE]
                /\ last' = LastMerge("on_nodes_discovered", scanner_nodes)
                /\ scan_log' =
                       [scan_log EXCEPT !.emitted = Append(@, scanner_nodes)]
       ELSE UNCHANGED <<canvases, issued, assigned, project_state, last,
                        scan_log>>

\* A variant of stop that leaves the flag alone.
stop_without_flag(th) == th

\* NetworkScannerThread.stop: self.stop_scan = True.
stop(th) == [th EXCEPT !.stop_scan = TRUE]

\* NetworkScannerWidget.start_scan, the slot of the start button: an empty or
\* invalid target gives a warning; otherwise the previous results are
\* cleared, the buttons switched and NetworkScanner.start_scan called, which
\* does nothing while a thread is running and else creates and starts one;
\* then the signals of scanner.scanner_thread, the running thread or the new
\* one, are connected to the handlers of the widget.
\* The calls the previous thread posted are taken to be delivered before the
\* click is.
start_scan ==
    /\ Idle
    /\ scanner_widget.start_button
    /\ events = <<>>
    /\ isRunning(scanner_thread) \/ scan_log.scans < MaxScans
    /\ \E target_network \in Networks \cup {<<>>} :
          IF target_network = <<>>
          THEN /\ last' = Last("start_scan", 0, "warning", "None")
               /\ UNCHANGED <<scanner_thread, scanner_nodes, scanner_widget,
                              scan_log>>
          ELSE /\ scanner_nodes' = <<>>
               /\ scanner_widget' = [start_button |-> FALSE,
                                     stop_button |-> TRUE]
               /\ IF isRunning(scanner_thread)
                  THEN /\ scanner_thread' =
                            [scanner_thread EXCEPT !.connections = @ + 1]
                       /\ UNCHANGED scan_log
                  ELSE /\ scanner_thread' =
                            [NoThread EXCEPT !.at = "loop",
                                             !.hosts = target_network,
                                             !.connections = 1]
                       /\ scan_log' = [scans |-> scan_log.scans + 1,
                                       emitted |-> <<>>]
               /\ last' = Last("start_scan", 0, "started", "None")
    /\ UNCHANGED <<canvases, active, crashed, pc, work, issued, assigned,
                   events>>
    /\ UNCHANGED <<appVars, fileVars>>

\* run(), the head of the for loop: the loop ends when no host is left or
\* stop_scan is set; otherwise _ping_host is called for the next host.  The
\* test of stop_scan and the call that follows it are one step: a host whose
\* iteration has passed the test is being probed.
run_loop ==
    /\ scanner_thread.at = "loop"
    /\ IF scanner_thread.stop_scan
          \/ scanner_thread.host = Len(scanner_thread.hosts)
       THEN scanner_thread' = [scanner_thread EXCEPT !.at = "finish"]
       ELSE scanner_thread' =
                [scanner_thread EXCEPT
                    !.at = "probe",
                    !.host = @ + 1,
                    !.probed = Append(@, scanner_thread.hosts[
                                             scanner_thread.host + 1])]
    /\ UNCHANGED <<windowVars, appVars, fileVars>>
    /\ UNCHANGED <<scanner_nodes, events, scanner_widget, scan_log>>

\* run(), the rest of the loop body: _ping_host returns; a host that
\* answered is appended to the local discovered_nodes and emitted with
\* node_discovered.
run_probe ==
    /\ scanner_thread.at = "probe"
    /\ \E answered \in BOOLEAN :
          LET host_ip == scanner_thread.hosts[scanner_thread.host]
              st == emit(Reach, NodeDiscovered(host_ip))
          IN  IF answered
              THEN /\ scanner_thread' =
                        [scanner_thread EXCEPT !.at = "loop",
                                               !.found = Append(@, host_ip)]
                   /\ events' = st.events
                   /\ scanner_nodes' = st.scanner_nodes
                   /\ canvases' = st.canvases
              ELSE /\ scanner_thread' = [scanner_thread EXCEPT !.at = "loop"]
                   /\ UNCHANGED <<events, scanner_nodes, canvases>>
    /\ UNCHANGED <<active, crashed, pc, work, last, issued, assigned>>
    /\ UNCHANGED <<appVars, fileVars, scanner_widget, scan_log>>

\* run(), after the loop: scan_finished.emit().
run_finish ==
    /\ scanner_thread.at = "finish"
    /\ scanner_thread' = [scanner_thread EXCEPT !.at = "return"]
    /\ LET st == emit(Reach, ScanFinished)
       IN  /\ events' = st.events
           /\ scanner_nodes' = st.scanner_nodes
           /\ canvases' = st.canvases
    /\ UNCHANGED <<active, crashed, pc, work, last, issued, assigned>>
    /\ UNCHANGED <<appVars, fileVars, scanner_widget, scan_log>>

\* run() returns and the thread ends: isRunning() is False from here on.
run_return ==
    /\ scanner_thread.at = "return"
    /\ scanner_thread' = [scanner_thread EXCEPT !.at = "done"]
    /\ UNCHANGED <<windowVars, appVars, fileVars>>
    /\ UNCHANGED <<scanner_nodes, events, scanner_widget, scan_log>>

\* The event loop of the window delivers the oldest posted call.
deliver ==
    /\ Idle
    /\ events # <<>>
    /\ events' = Tail(events)
    /\ IF Head(events).signal = "node_discovered"
       THEN /\ scanner_nodes' =
                  _on_node_discovered(scanner_nodes, Head(events).node_info)
            /\ UNCHANGED <<canvases, issued, assigned, project_state, last,
                           scan_log, scanner_widget>>
       ELSE /\ scan_finished
            /\ UNCHANGED scanner_nodes
    /\ UNCHANGED <<active, crashed, pc, work, scanner_thread>>
    /\ UNCHANGED <<has_project, recent_files, current_connection, fileVars>>

\* NetworkScannerWidget.stop_scan, the slot of the stop button, up to
\* scanner_thread.wait(): NetworkScanner.stop_scan calls stop() and wait() on
\* a running thread; with no thread running scan_finished() follows at once.
stop_scan ==
    /\ Idle
    /\ scanner_widget.stop_button
    /\ IF isRunning(scanner_thread)
       THEN /\ scanner_thread' = stop(scanner_thread)
            /\ pc' = "wait"
            /\ last' = Last("stop_scan", 0, "waiting", "None")
            /\ UNCHANGED <<canvases, issued, assigned, project_state,
                           scan_log, scanner_widget>>
       ELSE /\ scan_finished
            /\ UNCHANGED <<scanner_thread, pc>>
    /\ UNCHANGED <<active, crashed, work, scanner_nodes, events>>
    /\ UNCHANGED <<has_project, recent_files, current_connection, fileVars>>

\* stop_scan, the rest: wait() returns once run() has, then scan_finished().
stop_scan_return ==
    /\ pc = "wait"
    /\ ~isRunning(scanner_thread)
    /\ pc' = "idle"
    /\ scan_finished
    /\ UNCHANGED <<active, crashed, work, scanner_thread, scanner_nodes,
                   events>>
    /\ UNCHANGED <<has_project, recent_files, current_connection, fileVars>>

NextScan ==
    \/ start_scan
    \/ run_loop
    \/ run_probe
    \/ run_finish
    \/ run_return
    \/ deliver
    \/ stop_scan
    \/ stop_scan_return
    \/ auto_layout_action

\* The next statement of run() in the worker thread.
run == run_loop \/ run_probe \/ run_finish \/ run_return
\* What the thread of the window does without the user: it delivers posted
\* calls and returns from wait().
exec == deliver \/ stop_scan_return

\* The scanner, its worker thread and the window.  The worker is scheduled
\* and its probes time out; the event loop of the window keeps running.
SpecScan ==
    /\ Init
    /\ [][NextScan]_vars
    /\ WF_vars(run)
    /\ WF_vars(exec)

\* ------------------------------------------------------------- FileController
\* get_nodes_data(): the node records in the order of the registry, which is
\* the order of their ids.
RECURSIVE get_nodes_data_from(_, _)
get_nodes_data_from(nodes, ids) ==
    IF ids = {} THEN <<>>
    ELSE LET i == CHOOSE i \in ids : \A j \in ids : i <= j
         IN  <<nodes[i]>> \o get_nodes_data_from(nodes, ids \ {i})
get_nodes_data(cv) == get_nodes_data_from(cv.nodes, DOMAIN cv.nodes)

\* get_connections_data(): {"connections": [records of the registry]}.
get_connections_data(cv) ==
    [connections |->
        CHOOSE s \in DistinctSeqs(DOMAIN cv.connections,
                                  Cardinality(DOMAIN cv.connections),
                                  Cardinality(DOMAIN cv.connections)) :
            \A i \in DOMAIN s : \A j \in DOMAIN s :
                i < j => \/ s[i][1] < s[j][1]
                         \/ s[i][1] = s[j][1] /\ s[i][2] < s[j][2]]

\* A variant of get_full_data that takes the nodes from the L2 canvas.
get_full_data_from_l2(cs) ==
    [nodes |-> get_nodes_data(cs["l2"]),
     topologies |-> [l \in Layers |->
        LET keys == get_connections_data(cs[l]).connections
        IN  [connections |->
                [i \in DOMAIN keys |-> cs[l].connections[keys[i]]]]]]

\* get_full_data(): the nodes of the L1 canvas, the connections of each.
get_full_data(cs) ==
    [nodes |-> get_nodes_data(cs["l1"]),
     topologies |-> [l \in Layers |->
        LET keys == get_connections_data(cs[l]).connections
        IN  [connections |->
                [i \in DOMAIN keys |-> cs[l].connections[keys[i]]]]]]

\* AppStateManager.save_project and load_project: the new project state.
\* Both end by emitting their signal.
AppState_set_project(file_path) ==
    [file_path |-> file_path, has_unsaved_changes |-> FALSE]

\* What a FileController call leaves: files, current_project, project state,
\* its return value, the signals emitted, what DataManager.save_project
\* returned, the document as the call left it, the path used.
FileResult(files, cur, state, ret, signals, saved, data, file_path) ==
    [files |-> files, current_project |-> cur, project_state |-> state,
     ret |-> ret, signals |-> signals, saved |-> saved, data |-> data,
     path |-> file_path]

\* _save_project_to_path(file_path, data): DataManager.save_project, whose
\* return value is dropped, then AppStateManager.save_project, then True.
\* Neither call raises, so the except branch is never entered.
_save_project_to_path(files, cur, state, file_path, data, now, fault) ==
    LET r == save_project(files, cur, data, file_path, now, fault)
    IN  FileResult(r.files, r.current_project,
                   AppState_set_project(file_path), TRUE, {"project_saved"},
                   IF r.ret THEN "True" ELSE "False", r.data, file_path)

\* save_project_as(data): file_path is what the file dialog returned (NoPath
\* when it was dismissed).
save_project_as(files, cur, state, file_path, data, now, fault) ==
    IF file_path # NoPath
    THEN _save_project_to_path(files, cur, state, file_path, data, now, fault)
    ELSE FileResult(files, cur, state, FALSE, {}, "None", data, NoPath)

\* FileController.save_project(data): to the current path if there is one,
\* else as save_project_as.
FileController_save_project(files, cur, state, file_path, data, now, fault) ==
    IF state.file_path # NoPath
    THEN _save_project_to_path(files, cur, state, state.file_path, data, now,
                               fault)
    ELSE save_project_as(files, cur, state, file_path, data, now, fault)

\* The answers to a Yes/No/Cancel question.
Replies == {"Yes", "No", "Cancel"}
\* What a file dialog returns: a path, or nothing.
DialogPaths == Paths \cup {NoPath}

\* The answers a question gets if it is asked, the paths a file dialog
\* returns if it is shown, the failures a save meets if it is attempted.
Asked(asked) == IF asked THEN Replies ELSE {"None"}
Shown(shown) == IF shown THEN DialogPaths ELSE {NoPath}
Faults(saving) == IF saving THEN SaveFaults ELSE {"none"}

\* ANMPApp.closeEvent: with unsaved changes the user is asked; on Yes the
\* event is ignored when FileController.save_project returns False, on
\* Cancel it is ignored, otherwise the window closes.
closeEvent ==
    /\ Idle
    /\ clock < MaxWindowClock
    /\ \E reply \in Asked(project_state.has_unsaved_changes) :
       \E file_path \in Shown(reply = "Yes"
                                  /\ project_state.file_path = NoPath) :
       \E fault \in Faults(reply = "Yes"
                   /\ (project_state.file_path # NoPath
                          \/ file_path # NoPath)) :
         LET asked == project_state.has_unsaved_changes
             r == IF asked /\ reply = "Yes"
                  THEN FileController_save_project(fs, current_project,
                          project_state, file_path, get_full_data(canvases),
                          clock + 1, fault)
                  ELSE FileResult(fs, current_project, project_state, FALSE,
                                  {}, "None", None, NoPath)
             accepted == IF ~asked THEN TRUE
                         ELSE IF reply = "Yes" THEN r.ret
                         ELSE reply = "No"
         IN  /\ r.path # NoPath => FaultApplies(fs, r.path, fault)
             /\ fs' = r.files
             /\ current_project' = r.current_project
             /\ project_state' = r.project_state
             /\ recent_files' = IF "project_saved" \in r.signals
                                THEN _add_recent_file(recent_files, r.path)
                                ELSE recent_files
             /\ clock' = IF r.saved = "None" THEN clock ELSE clock + 1
             /\ pc' = IF accepted THEN "closed" ELSE pc
             /\ io' = IoRecord("closeEvent", r.path,
                               IF r.ret THEN "True" ELSE "False", "none",
                               r.data, fs, r.signals, accepted, r.saved)
    /\ UNCHANGED <<canvases, active, crashed, work, last, issued, assigned,
                   has_project, current_connection>>
    /\ UNCHANGED scanVars

\* NetworkCanvas.load_data(data), the whole of it: clear(), add_node for
\* each node of the document, add_connection for each connection that names
\* both ends.
RECURSIVE load_connections(_, _)
load_connections(cv, connections) ==
    IF connections = <<>> THEN cv
    ELSE LET c == Head(connections)
         IN  load_connections(
                 load_connection(cv, [kind |-> "dict", source |-> c.source,
                                      target |-> c.target, type |-> c.type,
                                      l1 |-> c.l1, l2 |-> c.l2]),
                 Tail(connections))

RECURSIVE load_node_records(_, _)
load_node_records(cv, nodes) ==
    IF nodes = <<>>
    THEN [canvas |-> cv, ids |-> <<>>]
    ELSE LET n    == Head(nodes)
             r    == add_node(cv, [kind |-> "dict", id |-> n.id,
                                   name |-> n.name, pos |-> n.pos,
                                   ip |-> n.ip, l3 |-> n.l3])
             rest == load_node_records(r.canvas, Tail(nodes))
         IN  [canvas |-> rest.canvas, ids |-> <<r.ret>> \o rest.ids]

load_data(cv, data) ==
    LET r == load_node_records(clear(cv), data.nodes)
    IN  [canvas |-> load_connections(r.canvas, data.connections),
         ids |-> r.ids]

\* _load_project_from_path(file_path): DataManager.load_project, then
\* AppStateManager.load_project, which emits project_loaded; any exception
\* is turned into error_occurred and False.
_load_project_from_path(files, cur, state, file_path, now) ==
    LET r == load_project(files, cur, file_path, now)
    IN  IF r.exc # "none"
        THEN [current_project |-> r.current_project, project_state |-> state,
              ret |-> FALSE, signals |-> {"error_occurred"}, exc |-> r.exc,
              data |-> None]
        ELSE [current_project |-> r.current_project,
              project_state |-> AppState_set_project(file_path),
              ret |-> TRUE, signals |-> {"project_loaded"}, exc |-> "none",
              data |-> r.ret]

\* FileController.open_project from the menu: the question about unsaved
\* changes (Yes saves nothing), the file dialog, _load_project_from_path;
\* on success on_project_loaded, in the same call, loads every canvas from
\* the document and update_ui_from_state enables the project's actions.
open_project ==
    /\ Idle
    /\ clock < MaxWindowClock
    /\ \E reply \in Asked(project_state.has_unsaved_changes) :
       \E file_path \in Shown(reply # "Cancel") :
         LET asked == project_state.has_unsaved_changes
             confirmed == ~asked \/ reply # "Cancel"
             called == confirmed /\ file_path # NoPath
             r == _load_project_from_path(fs, current_project, project_state,
                                          file_path, clock + 1)
             loaded == called /\ r.ret
             topologies == r.data.topologies
             docs == [l \in Layers |->
                        [nodes |-> r.data.nodes,
                         connections |->
                            IF l \in DOMAIN topologies
                                  /\ "connections" \in DOMAIN topologies[l]
                            THEN topologies[l].connections ELSE <<>>]]
         IN  /\ current_project' = IF called THEN r.current_project
                                   ELSE current_project
             /\ project_state' = IF called THEN r.project_state
                                 ELSE project_state
             /\ recent_files' = IF loaded
                                THEN _add_recent_file(recent_files, file_path)
                                ELSE recent_files
             /\ canvases' = IF loaded
                            THEN [l \in Layers |->
                                    load_data(canvases[l], docs[l]).canvas]
                            ELSE canvases
             /\ issued' = IF loaded
                          THEN [l \in Layers |->
                                    load_data(canvases[l], docs[l]).ids]
                          ELSE issued
             /\ assigned' = IF loaded
                            THEN [l \in Layers |-> assigned[l] \cup
                                Range(load_data(canvases[l], docs[l]).ids)]
                            ELSE assigned
             /\ has_project' = IF loaded THEN TRUE ELSE has_project
             /\ last' = IF loaded THEN Last("load_data", 0, "loaded", "None")
                        ELSE last
             /\ clock' = IF called THEN clock + 1 ELSE clock
             /\ io' = IF called
                      THEN IoRecord("open_project", file_path,
                                    IF r.ret THEN "True" ELSE "False", r.exc,
                                    r.data, fs, r.signals, FALSE, "None")
                      ELSE IoRecord("open_project", NoPath, "False", "none",
                                    None, fs, {}, FALSE, "None")
    /\ UNCHANGED <<active, crashed, pc, work, fs, current_connection>>
    /\ UNCHANGED scanVars

\* main(): the program is started again after its window was closed. The
\* files are what the last run left.
main ==
    /\ pc = "closed"
    /\ canvases' = [l \in Layers |-> NewCanvas]
    /\ active' = "l1"
    /\ crashed' = FALSE
    /\ pc' = "idle"
    /\ work' = NoWork
    /\ last' = Last("init", 0, "none", "None")
    /\ issued' = [l \in Layers |-> <<>>]
    /\ assigned' = [l \in Layers |-> {}]
    /\ has_project' = FALSE
    /\ project_state' = ProjectState
    /\ recent_files' = <<>>
    /\ current_project' = None
    /\ io' = NoIo
    /\ current_connection' = None
    /\ UNCHANGED <<fs, clock>>
    /\ scanner_thread' = NoThread
    /\ scanner_nodes' = <<>>
    /\ events' = <<>>
    /\ scanner_widget' = ScannerWidget
    /\ scan_log' = NoScan

NextFiles ==
    \/ on_nodes_discovered
    \/ open_project
    \/ closeEvent
    \/ main

\* The main window, its files and its scans.
SpecFiles == Init /\ [][NextFiles]_vars

NextPositions ==
    \/ on_nodes_discovered
    \/ switch_tab
    \/ auto_layout_action
    \/ closeEvent

\* The main window: nodes, their layout on each layer, and the save on close.
SpecPositions == Init /\ [][NextPositions]_vars

\* --------------------------------------------------------- recent files
\* The paths of the recent-files runs, and the list after they were loaded
\* one after the other, the first one first.
RecentPath(i) == "f" \o ToString(i) \o ".json"
RecentPaths == {RecentPath(i) : i \in 1..MaxRecentPaths}
RecentLoaded(n) == [i \in 1..n |-> RecentPath(n + 1 - i)]

\* AppStateManager after the paths 1..n were loaded (n up to
\* max_recent_files) and new_project was called: a fresh ProjectState,
\* recent_files as the loads left it.
InitRecent ==
    /\ canvases = [l \in Layers |-> NewCanvas]
    /\ active = "l1"
    /\ crashed = FALSE
    /\ pc = "idle"
    /\ work = NoWork
    /\ last = Last("init", 0, "none", "None")
    /\ issued = [l \in Layers |-> <<>>]
    /\ assigned = [l \in Layers |-> {}]
    /\ has_project = FALSE
    /\ project_state = ProjectState
    /\ recent_files \in {RecentLoaded(n) : n \in 0..max_recent_files}
    /\ fs = NoFiles
    /\ clock = 0
    /\ current_project = None
    /\ io = NoIo
    /\ current_connection = None
    /\ scanner_thread = NoThread
    /\ scanner_nodes = <<>>
    /\ events = <<>>
    /\ scanner_widget = ScannerWidget
    /\ scan_log = NoScan

\* How _add_recent_file(file_path) goes on the list recent.
AddRecentCase(recent, file_path) ==
    IF \E i \in DOMAIN recent : recent[i] = file_path THEN "moved"
    ELSE IF Len(recent) >= max_recent_files THEN "truncated"
    ELSE "inserted"

\* AppStateManager.load_project(file_path, data) with the document of an
\* empty project: the project state, _add_recent_file, and project_loaded,
\* whose slot on_project_loaded loads every canvas from the document.
AppStateManager_load_project ==
    /\ Idle
    /\ clock < MaxRecentOps
    /\ \E file_path \in RecentPaths :
         /\ project_state' = AppState_set_project(file_path)
         /\ recent_files' = _add_recent_file(recent_files, file_path)
         /\ last' = Last("_add_recent_file", 0,
                         AddRecentCase(recent_files, file_path), "None")
         /\ io' = IoRecord("AppStateManager.load_project", file_path, "None",
                           "none", None, fs, {"project_loaded"}, FALSE,
                           "None")
    /\ canvases' = [l \in Layers |->
           load_data(canvases[l], [nodes |-> <<>>,
                                   connections |-> <<>>]).canvas]
    /\ issued' = [l \in Layers |-> <<>>]
    /\ has_project' = TRUE
    /\ clock' = clock + 1
    /\ UNCHANGED <<active, crashed, pc, work, assigned, fs, current_project,
                   current_connection>>
    /\ UNCHANGED scanVars

\* AppStateManager.save_project(file_path, data): the project state,
\* _add_recent_file, and project_saved, which no slot is connected to.
AppStateManager_save_project ==
    /\ Idle
    /\ clock < MaxRecentOps
    /\ \E file_path \in RecentPaths :
         /\ project_state' = AppState_set_project(file_path)
         /\ recent_files' = _add_recent_file(recent_files, file_path)
         /\ last' = Last("_add_recent_file", 0,
                         AddRecentCase(recent_files, file_path), "None")
         /\ io' = IoRecord("AppStateManager.save_project", file_path, "None",
                           "none", None, fs, {"project_saved"}, FALSE,
                           "None")
    /\ clock' = clock + 1
    /\ UNCHANGED <<canvases, active, crashed, pc, work, issued, assigned,
                   has_project, fs, current_project, current_connection>>
    /\ UNCHANGED scanVars

NextRecent ==
    \/ AppStateManager_load_project
    \/ AppStateManager_save_project

\* AppStateManager: loads and saves, and the list of recent files.
SpecRecent == InitRecent /\ [][NextRecent]_vars

\* _confirm_unsaved_changes(action_text): True without a question when there
\* is nothing unsaved; else the question, False on Cancel, True on No and,
\* with nothing saved (the branch is `pass`), on Yes.
_confirm_unsaved_changes(state, reply) ==
    IF ~state.has_unsaved_changes THEN TRUE
    ELSE reply # "Cancel"

\* An answered question that let the handler go on.
LastReply(op, ret, reply) ==
    [op |-> op, id |-> 0, outcome |-> "returned", ret |-> ret, arg |-> reply,
     hosts |-> <<>>, names |-> <<>>, placed |-> {}]

\* FileController.new_project from the menu: once confirmed,
\* AppStateManager.new_project puts a fresh ProjectState and emits
\* project_cleared, a signal setup_connections connects to no slot.
new_project ==
    /\ Idle
    /\ \E reply \in Asked(project_state.has_unsaved_changes) :
         LET confirmed == _confirm_unsaved_changes(project_state, reply)
         IN  /\ project_state' = IF confirmed THEN ProjectState
                                 ELSE project_state
             /\ last' = LastReply("new_project",
                                  IF confirmed THEN "True" ELSE "False", reply)
             /\ io' = IoRecord("new_project", NoPath,
                               IF confirmed THEN "True" ELSE "False", "none",
                               None, fs,
                               IF confirmed THEN {"project_cleared"} ELSE {},
                               FALSE, "None")
    /\ UNCHANGED <<canvases, active, crashed, pc, work, issued, assigned>>
    /\ UNCHANGED <<has_project, recent_files, current_connection, fs, clock,
                   current_project>>
    /\ UNCHANGED scanVars

NextProject ==
    \/ on_nodes_discovered
    \/ switch_tab
    \/ auto_layout_action
    \/ new_project

\* The main window: its canvases and the "new project" action.
SpecProject == Init /\ [][NextProject]_vars

NextModified ==
    \/ on_nodes_discovered
    \/ open_project
    \/ auto_layout_action
    \/ closeEvent
    \/ main

\* The main window: changes to the topology, saves, and the question on close.
SpecModified == Init /\ [][NextModified]_vars

\* ------------------------------------------------------------- properties
\* A document without metadata["modified"] (and without a "metadata" that
\* holds nothing else).
WithoutModified(doc) ==
    IF "metadata" \notin DOMAIN doc THEN doc
    ELSE LET metadata == [k \in DOMAIN doc.metadata \ {"modified"} |->
                             doc.metadata[k]]
         IN  IF DOMAIN metadata = {}
             THEN [k \in DOMAIN doc \ {"metadata"} |-> doc[k]]
             ELSE Put(doc, "metadata", metadata)

Nodes(l) == DOMAIN canvases[l].nodes
Conns(l) == DOMAIN canvases[l].connections
IsPrefix(s, t) == Len(s) <= Len(t) /\ SubSeq(t, 1, Len(s)) = s

\* The ids add_node assigned on canvas l in the step at hand: the tail added to
\* issued[l], or all of issued'[l] when the step cleared the canvas first.
NewlyIssued(l) ==
    IF IsPrefix(issued[l], issued'[l])
    THEN {issued'[l][i] : i \in (Len(issued[l]) + 1)..Len(issued'[l])}
    ELSE Range(issued'[l])

\* C1: on one canvas, the ids returned by node creations (add_node,
\* add_node_at_position, add_discovered_nodes) interleaved with delete_node
\* are pairwise distinct.
C1_CreatedIdsDistinct ==
    \A l \in Layers :
        \A i \in DOMAIN issued[l] : \A j \in DOMAIN issued[l] :
            i # j => issued[l][i] # issued[l][j]

\* C1 witness: three ids were handed out on a canvas and one of the nodes
\* created before the last creation has been deleted.
C1_Witness ==
    /\ pc = "idle"
    /\ Len(issued[active]) >= 3
    /\ issued[active][Len(issued[active])] \in Nodes(active)
    /\ \E i \in 1..(Len(issued[active]) - 1) :
          issued[active][i] \notin Nodes(active)

\* C2 (as claimed): within a session no canvas assigns an id it has assigned
\* before, whatever add_node, delete_node, clear and load_data calls are made.
C2_IdNeverReassigned ==
    [][\A l \in Layers : NewlyIssued(l) \cap assigned[l] = {}]_vars

\* C3 (as claimed): once add_node_action has run, the new node is registered
\* under its id in all three canvases.
C3_NodeInAllLayers ==
    last.op = "add_node_action" => \A l \in Layers : last.id \in Nodes(l)

\* C4 (as claimed): once delete_node(x) on the active canvas is done, no
\* connection of any of the three layers has x as source or target.
C4_CascadeInEveryLayer ==
    (pc = "idle" /\ last.op = "delete_node" /\ last.outcome = "removed")
        => \A l \in Layers : \A k \in Conns(l) :
               /\ k[1] # last.id /\ k[2] # last.id
               /\ canvases[l].connections[k].source # last.id
               /\ canvases[l].connections[k].target # last.id

\* C5 (as claimed): between user actions a deleted node id is not absent from
\* one layer's node set while present in another's.
C5_DeletedFromEveryLayer ==
    (pc = "idle" /\ last.op = "delete_node" /\ last.outcome = "removed")
        => \A l1 \in Layers : \A l2 \in Layers :
               (last.id \in Nodes(l1)) <=> (last.id \in Nodes(l2))

\* C6: in every state of a canvas, the steps inside delete_node included, both
\* ends of every registered connection (of its key and of its record) are
\* registered nodes; so delete_node has removed every incident connection by
\* the time it removes the node.
C6_EndpointsRegistered ==
    \A l \in Layers : \A k \in Conns(l) :
        /\ k[1] \in Nodes(l) /\ k[2] \in Nodes(l)
        /\ canvases[l].connections[k].source \in Nodes(l)
        /\ canvases[l].connections[k].target \in Nodes(l)

\* C6 witness: delete_node is under way on a node that was an end of two
\* connections; one of them is gone, the other and the node are still there.
C6_Witness ==
    /\ pc = "delete"
    /\ work.cur \in Nodes(active)
    /\ Cardinality(work.deleted) = 1
    /\ Cardinality(work.pending) = 1
    /\ work.pending = connections_to_remove(canvases[active], work.cur)

\* C7: a layer holds at most one connection per unordered pair of node ids,
\* whatever add_connection, update_connection, delete_connection and
\* load_data calls were made.
C7_OnePerUnorderedPair ==
    \A l \in Layers : \A k1 \in Conns(l) : \A k2 \in Conns(l) :
        LET c1 == canvases[l].connections[k1]
            c2 == canvases[l].connections[k2]
        IN  ({k1[1], k1[2]} = {k2[1], k2[2]}
                \/ {c1.source, c1.target} = {c2.source, c2.target})
            => k1 = k2

\* C7 witness: add_connection was called for a pair that already had its
\* connection, and the pair has exactly one.
C7_Witness ==
    /\ pc = "idle"
    /\ last.op = "add_connection"
    /\ last.outcome = "pair_exists"
    /\ Cardinality(Conns(active)) = 1

\* C8 (as claimed): add_connection returns a true value exactly when it
\* inserts (the ids are known, differ and the pair is new) and a false value
\* (False, or None taken as false) otherwise.
C8_ReturnsWhetherInserted ==
    last.op = "add_connection"
        => ((last.outcome = "fresh") <=> (last.ret = "True"))

\* C9: no layer ever holds a connection from a node to itself, neither by
\* add_connection(a, a) nor by a self-loop record given to load_data.
C9_NoSelfLoop ==
    \A l \in Layers : \A k \in Conns(l) :
        /\ k[1] # k[2]
        /\ canvases[l].connections[k].source # canvases[l].connections[k].target

\* C9 witness: add_connection(a, a) was called on a registered node a.
C9_Witness ==
    /\ last.op = "add_connection"
    /\ last.outcome = "self_loop"
    /\ Nodes(active) # {}

\* C10: an add_connection call that is rejected (unknown id, self-loop, pair
\* already connected) changes neither the nodes nor the connections of any
\* layer, the record of the pair's connection included, whatever
\* connection_data was supplied.
C10_RejectedAddChangesNothing ==
    [][(last'.op = "add_connection" /\ last'.outcome # "fresh")
          => canvases' = canvases]_vars

\* C10 witness: the pair of the only connection, of type "ethernet", was given
\* to add_connection again with connection_data of type "fiber".
C10_Witness ==
    /\ last.op = "add_connection"
    /\ last.outcome = "pair_exists"
    /\ last.arg = "fiber"
    /\ Cardinality(Conns(active)) = 1
    /\ \A k \in Conns(active) : canvases[active].connections[k].type = "ethernet"

\* The ids add_node returned, in order, to the discovery merge that ran last
\* on layer l (one per record of last.hosts).
MergedIds(l) ==
    [k \in 1..Len(last.hosts) |->
        issued[l][Len(issued[l]) - Len(last.hosts) + k]]
IsMerge(op) == op \in {"add_discovered_nodes", "on_nodes_discovered"}

\* C11 (as claimed): a discovery merge that directly follows a merge of the
\* same list of hosts leaves every layer's number of nodes as it was.
C11_MergeTwiceSameCount ==
    [][(/\ last.op = "on_nodes_discovered"
        /\ last'.op = "on_nodes_discovered"
        /\ last'.hosts = last.hosts)
          => \A l \in Layers :
                Cardinality(DOMAIN canvases'[l].nodes)
                    = Cardinality(DOMAIN canvases[l].nodes)]_vars

\* C12 (as claimed): after a discovery merge no node it created carries an
\* address that another node of the layer carries (a node registered before,
\* or one created for an earlier record of the list).
C12_OneNodePerAddress ==
    IsMerge(last.op)
        => \A i \in Range(MergedIds(active)) : \A j \in Nodes(active) :
               i # j => canvases[active].nodes[i].ip
                            # canvases[active].nodes[j].ip

\* C13 (as claimed): the node a discovery merge created for a record with
\* address A has l3.ip = A and, the record giving no mask, l3.mask =
\* 255.255.255.0.
C13_AddressBecomesL3Ip ==
    IsMerge(last.op)
        => \A k \in DOMAIN last.hosts :
               LET node_data == canvases[active].nodes[MergedIds(active)[k]]
               IN  /\ node_data.l3.ip = last.hosts[k]
                   /\ node_data.l3.mask = DefaultMask

\* C14 (as claimed): the node a discovery merge created for a record has one
\* and the same id in every layer.
C14_MergedUnderOneId ==
    last.op = "on_nodes_discovered"
        => \A k \in DOMAIN last.hosts : \A l1 \in Layers : \A l2 \in Layers :
               MergedIds(l1)[k] = MergedIds(l2)[k]

\* A document with the three layers' connection lists.
WellFormed(doc) ==
    /\ "topologies" \in DOMAIN doc
    /\ \A l \in Layers :
          /\ l \in DOMAIN doc.topologies
          /\ "connections" \in DOMAIN doc.topologies[l]

\* C15 (as claimed): a document returned by load_project has the keys and values of the
\* document save_project wrote to that file, the metadata "modified" time set
\* aside.
C15_RoundTrip ==
    (io.op = "load_project" /\ io.exc = "none"
        /\ WellFormed(io.before[io.path].value))
        => WithoutModified(io.data) = WithoutModified(io.before[io.path].value)

\* C16: after a successful save over a file that an earlier save wrote, the
\* backup path holds exactly what that file held (whatever the backup held
\* before is gone) and the path holds the document just saved.
C16_BackupHoldsPreviousSave ==
    (io.op = "save_project" /\ io.ret = "True"
        /\ io.before[io.path].kind = "json")
        => /\ fs[Backup(io.path)] = io.before[io.path]
           /\ fs[io.path] = JsonText(io.data)

\* A third successful save: the backup of the second one is replaced.
C16_Witness ==
    /\ io.op = "save_project" /\ io.ret = "True"
    /\ io.before[io.path].kind = "json"
    /\ io.before[Backup(io.path)].kind = "json"
    /\ io.before[Backup(io.path)] # io.before[io.path]
    /\ fs[Backup(io.path)] = io.before[io.path]

\* C17 (as claimed): after a save that failed, a file that was at the path before the
\* call is still there with the content it had.
C17_FailedSaveKeepsFile ==
    (io.op = "save_project" /\ io.ret = "False"
        /\ io.before[io.path].kind # "absent")
        => fs[io.path] = io.before[io.path]

\* C20 (as claimed): load_project on a file whose text does not parse raises
\* json.JSONDecodeError and leaves current_project as it was.
C20_MalformedRaisesParseError ==
    [][(clock' # clock /\ io'.op = "load_project"
            /\ fs[io'.path].kind = "malformed")
        => (io'.exc = "JSONDecodeError"
            /\ current_project' = current_project)]_vars

\* C18 (as claimed): when DataManager.save_project fails inside a save of the window, the
\* handler returns False and emits error_occurred, the project state is as
\* before and project_saved is not emitted, and a close event that asked for
\* the save is not accepted.
C18_FailedSaveSurfaced ==
    [][(clock' # clock /\ io'.op = "closeEvent"
            /\ io'.saved = "False")
        => (/\ io'.ret = "False"
            /\ "error_occurred" \in io'.signals
            /\ "project_saved" \notin io'.signals
            /\ project_state' = project_state
            /\ ~io'.accepted)]_vars

\* C19: opening a path that holds no file fails with FileNotFoundError, is
\* reported, and leaves current_project, the project state and the three
\* canvases as they were.
C19_MissingFileChangesNothing ==
    [][(clock' # clock /\ io'.op = "open_project"
            /\ fs[io'.path].kind = "absent")
        => (/\ io'.exc = "FileNotFoundError"
            /\ io'.ret = "False"
            /\ io'.signals = {"error_occurred"}
            /\ current_project' = current_project
            /\ project_state' = project_state
            /\ has_project' = has_project
            /\ canvases' = canvases)]_vars

\* A path without a file was opened while the window had unsaved changes and
\* nodes on its canvases.
C19_Witness ==
    /\ io.op = "open_project" /\ io.exc = "FileNotFoundError"
    /\ io.before[io.path].kind = "absent"
    /\ io.ret = "False" /\ io.signals = {"error_occurred"}
    /\ project_state.has_unsaved_changes
    /\ \A l \in Layers : DOMAIN canvases[l].nodes # {}

\* C21 (as claimed): a document that load_project returned has the three
\* layers under "topologies", each with a connections list.
C21_LenientLoad ==
    (io.op = "load_project" /\ io.exc = "none") => WellFormed(io.data)

\* C22 (as claimed): update_node and delete_node called with an id that is
\* not registered raise NotFoundError and leave the canvas as it was.
C22_AbsentIdRaises ==
    [][(last' # last /\ last'.op \in {"update_node", "delete_node"}
            /\ last'.outcome = "absent")
        => (last'.ret = "NotFoundError" /\ canvases' = canvases)]_vars

\* C23: update_connection for a pair that has no connection in the layer
\* returns without an error and leaves every layer's connections, and the
\* nodes, as they were.
C23_UpdateAbsentIsNoOp ==
    [][(last' # last /\ last'.op = "update_connection"
            /\ last'.outcome = "absent")
        => (last'.ret = "None" /\ ~crashed' /\ canvases' = canvases)]_vars

\* C23 witness: update_connection was called for a pair without a connection
\* on a layer that holds a connection of another pair.
C23_Witness ==
    /\ last.op = "update_connection"
    /\ last.outcome = "absent"
    /\ Cardinality(Conns(active)) = 1

\* C24 (as claimed): apply_changes on a connection selected in one layer
\* leaves the connections of the other two layers as they were.
C24_EditScopedToLayer ==
    [][(last'.op = "apply_changes" /\ canvases' # canvases)
        => \A l \in Layers \ {current_connection'.layer} :
              canvases'[l] = canvases[l]]_vars

\* The nodes of layer l that no connection record of l names as its source
\* or as its target.
IsolatedIds(l) ==
    {i \in Nodes(l) :
        \A k \in Conns(l) : /\ canvases[l].connections[k].source # i
                             /\ canvases[l].connections[k].target # i}

\* C25: get_isolated_nodes returns the names of the nodes of the layer that
\* are an end of none of its connections, one entry per such node and no
\* other entry.
C25_IsolatedNames ==
    (pc = "idle" /\ last.op = "get_isolated_nodes")
        => \E s \in DistinctSeqs(IsolatedIds(active),
                                 Cardinality(IsolatedIds(active)),
                                 Cardinality(IsolatedIds(active))) :
              /\ Len(last.names) = Len(s)
              /\ \A i \in DOMAIN s :
                    last.names[i] = canvases[active].nodes[s[i]].name

\* C25 witness: the layer holds the nodes 1 and 2 alone and the connection
\* between them, and get_isolated_nodes returned the empty list.
C25_Witness ==
    /\ last.op = "get_isolated_nodes"
    /\ Nodes(active) = {1, 2}
    /\ Conns(active) = {<<1, 2>>}
    /\ last.names = <<>>

\* An auto_layout that did something: the step that records it, or that moved
\* a node while the record of an earlier auto_layout stands.
LayoutStep ==
    /\ last'.op = "auto_layout"
    /\ (last' # last \/ canvases' # canvases)

\* C26: auto_layout on a layer changes only node positions: the layer's set of
\* node ids, every node's other attributes, the layer's connections with
\* their attributes and the id counter are unchanged, and so are the other
\* two layers.
C26_LayoutChangesOnlyPositions ==
    [][LayoutStep =>
          /\ \A l \in Layers \ {active} : canvases'[l] = canvases[l]
          /\ active' = active
          /\ canvases'[active].connections = canvases[active].connections
          /\ canvases'[active].next_node_id = canvases[active].next_node_id
          /\ DOMAIN canvases'[active].nodes = DOMAIN canvases[active].nodes
          /\ \A i \in DOMAIN canvases[active].nodes :
                [canvases'[active].nodes[i] EXCEPT
                    !.pos = canvases[active].nodes[i].pos]
                    = canvases[active].nodes[i]]_vars

\* C26 witness: the active layer holds a connection and was laid out, while
\* another layer still shows the same nodes where they were created.
C26_Witness ==
    /\ last.op = "auto_layout"
    /\ Conns(active) # {}
    /\ \A i \in Nodes(active) : canvases[active].nodes[i].pos = LayoutPos
    /\ \E l \in Layers \ {active} :
          /\ Nodes(l) = Nodes(active)
          /\ \A i \in Nodes(l) : canvases[l].nodes[i].pos = RandomPos

\* C27: auto_layout assigns a position to every node of the layer, the nodes
\* without an incident connection included.
C27_LayoutPlacesEveryNode ==
    [][LayoutStep =>
          /\ last'.placed = Nodes(active)
          /\ \A i \in Nodes(active) :
                canvases'[active].nodes[i].pos = LayoutPos]_vars

\* C27 witness: the layer laid out holds two nodes and no connection, and both
\* nodes were placed.
C27_Witness ==
    /\ last.op = "auto_layout"
    /\ Nodes(active) = {1, 2}
    /\ IsolatedIds(active) = {1, 2}
    /\ last.placed = {1, 2}
    /\ \A i \in Nodes(active) : canvases[active].nodes[i].pos = LayoutPos

\* The addresses of the nodes registered on layer l.
NodeIps(l) == {canvases[l].nodes[i].ip : i \in Nodes(l)}

\* stop() was called for the running thread: the window waits for it, or the
\* flag is set while run() has not returned.
Cancelled ==
    \/ pc = "wait"
    \/ scanner_thread.stop_scan /\ isRunning(scanner_thread)

\* C28: cancelling a running scan.  Once stop() has set the flag the worker
\* calls _ping_host for no further address (the call in progress ends), and
\* the thread terminates; the nodes found before stay in the scanner's
\* discovered list across the cancellation and every node the worker found
\* is merged into the layers.
C28_CancelStopsProbes ==
    /\ [][Cancelled => /\ scanner_thread'.probed = scanner_thread.probed
                       /\ IsPrefix(scanner_nodes, scanner_nodes')]_vars
    /\ (pc = "wait") ~> (pc = "idle" /\ ~isRunning(scanner_thread))
    /\ \A ip \in Range(HostOrder) :
          (ip \in Range(scanner_thread.found))
              ~> (\A l \in Layers : ip \in NodeIps(l))

\* C28 witness: the scan was cancelled after the first host had answered and
\* before the second was probed; the thread is done and the node found is on
\* every layer.
C28_Witness ==
    /\ pc = "idle"
    /\ scanner_thread.at = "done"
    /\ scanner_thread.stop_scan
    /\ scanner_thread.hosts = HostOrder
    /\ scanner_thread.probed = <<HostOrder[1]>>
    /\ scanner_thread.found = <<HostOrder[1]>>
    /\ \A l \in Layers : HostOrder[1] \in NodeIps(l)

\* A statement of run() was executed: a step of the worker thread.
WorkerStep ==
    /\ isRunning(scanner_thread)
    /\ scanner_thread'.at # scanner_thread.at

\* C29: the records found reach the layers only in the thread of the window.
\* No step of the worker thread changes a layer or the scanner's list, and
\* the step that merges applies the scanner's list, record after record, to
\* the layers as they stood, with nothing else changing them in between.
C29_MergeOnlyInWindowThread ==
    [][/\ WorkerStep => /\ canvases' = canvases
                        /\ scanner_nodes' = scanner_nodes
       /\ canvases' # canvases =>
             /\ ~WorkerStep
             /\ pc \in {"idle", "wait"}
             /\ last'.op = "on_nodes_discovered" =>
                   /\ last'.hosts = scanner_nodes
                   /\ canvases' = [l \in Layers |->
                          add_discovered_nodes(canvases[l],
                                               scanner_nodes).canvas]]_vars

\* C29 witness: both hosts answered, the worker has returned, its calls were
\* delivered and the two records are on every layer, merged once.
C29_Witness ==
    /\ scanner_thread.at = "done"
    /\ ~scanner_thread.stop_scan
    /\ events = <<>>
    /\ last.op = "on_nodes_discovered"
    /\ scan_log.emitted = <<HostOrder>>
    /\ \A l \in Layers : NodeIps(l) = Range(HostOrder)

\* C30: the node positions in the document a save wrote are the positions the
\* nodes have on the L1 layer, whatever they are on L2 and L3.
C30_SavedPositionsAreL1 ==
    (io.op = "closeEvent" /\ io.saved = "True")
        => /\ fs[io.path].kind = "json"
           /\ LET nodes == fs[io.path].value.nodes
              IN  /\ {nodes[i].id : i \in DOMAIN nodes} = Nodes("l1")
                  /\ \A i \in DOMAIN nodes :
                        nodes[i].pos = canvases["l1"].nodes[nodes[i].id].pos

\* C30 witness: two nodes were laid out on L2 and not on L1, and the file
\* saved holds them where L1 has them.
C30_Witness ==
    /\ io.op = "closeEvent" /\ io.saved = "True"
    /\ Nodes("l1") = {1, 2}
    /\ \A i \in Nodes("l2") : canvases["l2"].nodes[i].pos = LayoutPos
    /\ \A i \in Nodes("l1") : canvases["l1"].nodes[i].pos = RandomPos
    /\ \A i \in DOMAIN fs[io.path].value.nodes :
          fs[io.path].value.nodes[i].pos = RandomPos

\* C31 (as claimed): the document create_new_project returns has a top-level
\* "nodes" section and a top-level "connections" section.
C31_NewProjectSections ==
    (io.op = "create_new_project")
        => {"nodes", "connections"} \subseteq DOMAIN io.data

\* C32 (as claimed): load_data keeps the ids recorded in the document: once
\* its first loop has run, the nodes of the canvas are registered under the
\* ids of the document's node records.
C32_LoadKeepsIds ==
    (pc = "load") => Nodes(work.l) = Range(work.doc_nodes)

\* C33 (as claimed): for one scan nodes_discovered is emitted, and
\* on_nodes_discovered run, at most once.
C33_DeliveredAtMostOnce ==
    Len(scan_log.emitted) <= 1

\* C34 (as claimed): a step of the user that changes the topology leaves the
\* project marked as having unsaved changes.
C34_MutationMarksModified ==
    [][(canvases' # canvases
           /\ last'.op \in {"on_nodes_discovered", "auto_layout"})
          => project_state'.has_unsaved_changes]_vars

\* C35 (as claimed): after new_project returned True every canvas holds no
\* node and no connection and its id counter is back at 1.
C35_NewProjectClearsCanvases ==
    (last.op = "new_project" /\ last.ret = "True")
        => \A l \in Layers : canvases[l] = NewCanvas

\* C36 (as claimed): when the question before new_project was answered Yes
\* and the action went on, the changes were saved first.
C36_YesSavesFirst ==
    (last.op = "new_project" /\ last.arg = "Yes" /\ last.ret = "True")
        => io.saved = "True"

\* C37: the recent-files list holds no path twice, has at most
\* max_recent_files entries, and after a load or a save starts with the path
\* loaded or saved.
C37_RecentFiles ==
    /\ \A i \in DOMAIN recent_files : \A j \in DOMAIN recent_files :
          recent_files[i] = recent_files[j] => i = j
    /\ Len(recent_files) <= max_recent_files
    /\ io.op \in {"AppStateManager.load_project",
                  "AppStateManager.save_project"}
          => (recent_files # <<>> /\ recent_files[1] = io.path)

\* C37 witness: a path was loaded that the full list held further down, and
\* before it a path that pushed the oldest entry out.
C37_Witness ==
    /\ io.op = "AppStateManager.load_project"
    /\ last.outcome = "moved"
    /\ Len(recent_files) = max_recent_files
    /\ recent_files[1] = io.path
    /\ recent_files[2] = RecentPath(max_recent_files + 1)

\* A click on the start button that went on to NetworkScanner.start_scan.
StartStep ==
    scanner_widget.start_button /\ ~scanner_widget'.start_button

\* C38 (as claimed): a start_scan while a thread is running starts no second
\* thread and leaves the running one as it is, and the signals of the
\* scanner's thread are connected to the handlers of the widget once.
C38_OneWorkerConnectedOnce ==
    [][StartStep =>
          /\ isRunning(scanner_thread) =>
                [scanner_thread' EXCEPT !.connections = 0]
                    = [scanner_thread EXCEPT !.connections = 0]
          /\ scanner_thread'.connections = 1]_vars

\* C39: on every layer a node registered under k has "id" k, and a
\* connection registered under <<a, b>> has a < b and a record whose source
\* and target are a and b, in this order or the other.
C39_RegistryKeys ==
    \A l \in Layers :
       /\ \A k \in DOMAIN canvases[l].nodes : canvases[l].nodes[k].id = k
       /\ \A key \in DOMAIN canvases[l].connections :
             /\ key[1] < key[2]
             /\ <<canvases[l].connections[key].source,
                  canvases[l].connections[key].target>>
                    \in {<<key[1], key[2]>>, <<key[2], key[1]>>}

\* C39 witness: a connection added from node 2 to node 1 is registered under
\* <<1, 2>> with its record in the other order, and node 1 was updated since.
C39_Witness ==
    /\ last.op = "update_node" /\ last.outcome = "found"
    /\ <<1, 2>> \in DOMAIN canvases[active].connections
    /\ canvases[active].connections[<<1, 2>>].source = 2
    /\ canvases[active].connections[<<1, 2>>].target = 1
    /\ canvases[active].nodes[1].id = 1
    /\ canvases[active].nodes[1].ip # NoIp

====
